---------------------------- MODULE Spec2Model ----------------------------
(***************************************************************************)
(* Model of the agent layer of globaltrade-ai: the capability handlers of  *)
(* MarketResearchAgent, TranslationAgent and BusinessIntelligenceAgent,    *)
(* the completion client and the JSON result parsing of BaseAgent, the     *)
(* dispatcher AgentOrchestrator.route_request and the aggregate request    *)
(* AgentManager.process_market_research_request.                           *)
(*                                                                         *)
(* Python values are modelled as JSON values of one uniform record shape   *)
(* (kind, atom, keys, items); a Python str is a sequence of segments, so   *)
(* that an f-string keeps the values it interpolates and a completion text *)
(* is the sequence of its lexemes.                                         *)
(***************************************************************************)
EXTENDS Integers, Sequences, FiniteSets, TLC

(***************************************************************************)
(* Bounds of the model.                                                    *)
(***************************************************************************)
\* nesting depth of the JSON values the upstream model is taken to answer with
MaxDepth == 1
\* length of the products list of a request
MaxProducts == 1
\* length of the texts list of a batch translation request
MaxTexts == 1

(***************************************************************************)
(* Python / JSON values.                                                   *)
(***************************************************************************)
\* kind: "str", "num", "bool", "null", "arr", "obj" (and "exc", an exception object);
\* atom: the segments of a str (or the literal of a float); n: the value of an int;
\* keys, items: the keys and values of a dict in insertion order, the items of a list
JV(k, a, i, ks, its) == [kind |-> k, atom |-> a, n |-> i, keys |-> ks, items |-> its]

Str(s) == JV("str", s, 0, <<>>, <<>>)
Num(i) == JV("num", <<>>, i, <<>>, <<>>)
Float(lit) == JV("num", <<lit>>, 0, <<>>, <<>>)
Bool(b) == JV("bool", <<IF b THEN "true" ELSE "false">>, 0, <<>>, <<>>)
None == JV("null", <<>>, 0, <<>>, <<>>)
Arr(its) == JV("arr", <<>>, 0, <<>>, its)
Obj(ks, its) == JV("obj", <<>>, 0, ks, its)
\* an exception object (a result of asyncio.gather with return_exceptions=True)
Exc(msg) == JV("exc", msg, 0, <<>>, <<>>)

\* a one-segment str, and a list of such
S(s) == Str(<<s>>)
StrList(ss) == Arr([i \in 1..Len(ss) |-> S(ss[i])])

IsDict(v) == v.kind = "obj"
IsList(v) == v.kind = "arr"
IsStr(v) == v.kind = "str"

\* position of key k in a dict, 0 when absent
KeyIndex(d, k) ==
    IF \E i \in 1..Len(d.keys) : d.keys[i] = k
    THEN CHOOSE i \in 1..Len(d.keys) : d.keys[i] = k
    ELSE 0

\* `k in d`
Has(d, k) == KeyIndex(d, k) # 0

\* d[k] for a key that is present
Item(d, k) == d.items[KeyIndex(d, k)]

\* d.get(k, default)
Get(d, k, default) == IF Has(d, k) THEN Item(d, k) ELSE default

\* d[k] = v : replaces the value of an existing key in place, else appends the key
SetItem(d, k, v) ==
    IF Has(d, k)
    THEN Obj(d.keys, [d.items EXCEPT ![KeyIndex(d, k)] = v])
    ELSE Obj(Append(d.keys, k), Append(d.items, v))

\* Python truthiness (`not x` is its negation)
Truthy(v) ==
    CASE v.kind = "str" -> v.atom # <<>>
      [] v.kind = "num" -> v.atom # <<>> \/ v.n # 0
      [] v.kind = "bool" -> v.atom = <<"true">>
      [] v.kind = "null" -> FALSE
      [] v.kind = "arr" -> v.items # <<>>
      [] v.kind = "obj" -> v.keys # <<>>
      [] OTHER -> TRUE

\* len(x) raises TypeError for a number, a boolean and None
HasLen(v) == v.kind \in {"str", "arr", "obj"}

(***************************************************************************)
(* json.loads: a recursive-descent parse of the lexemes of a text.         *)
(***************************************************************************)
\* string lexemes and the Python str each decodes to
StrLexemes == {"\"x\"", "\"performance_score\"", "\"title\""}

Unquote(lx) ==
    CASE lx = "\"x\"" -> "x"
      [] lx = "\"performance_score\"" -> "performance_score"
      [] lx = "\"title\"" -> "title"

Quote(s) ==
    CASE s = "x" -> "\"x\""
      [] s = "performance_score" -> "\"performance_score\""
      [] s = "title" -> "\"title\""

NumLexemes == {"85", "0"}

NumValue(lx) == CASE lx = "85" -> 85 [] lx = "0" -> 0

NumLexeme(i) == CASE i = 85 -> "85" [] i = 0 -> "0"

ParseFail == [ok |-> FALSE, val |-> None, next |-> 0]

RECURSIVE ParseValue(_, _)
RECURSIVE ParseElements(_, _, _)
RECURSIVE ParseMembers(_, _, _)

\* the value starting at lexeme i; next is the position after it
ParseValue(toks, i) ==
    IF i > Len(toks) THEN ParseFail
    ELSE LET t == toks[i] IN
         CASE t \in NumLexemes -> [ok |-> TRUE, val |-> Num(NumValue(t)), next |-> i + 1]
           [] t \in StrLexemes -> [ok |-> TRUE, val |-> Str(<<Unquote(t)>>), next |-> i + 1]
           [] t = "null" -> [ok |-> TRUE, val |-> None, next |-> i + 1]
           [] t = "true" -> [ok |-> TRUE, val |-> Bool(TRUE), next |-> i + 1]
           [] t = "false" -> [ok |-> TRUE, val |-> Bool(FALSE), next |-> i + 1]
           [] t = "[" ->
                IF i + 1 <= Len(toks) /\ toks[i + 1] = "]"
                THEN [ok |-> TRUE, val |-> Arr(<<>>), next |-> i + 2]
                ELSE ParseElements(toks, i + 1, <<>>)
           [] t = "{" ->
                IF i + 1 <= Len(toks) /\ toks[i + 1] = "}"
                THEN [ok |-> TRUE, val |-> Obj(<<>>, <<>>), next |-> i + 2]
                ELSE ParseMembers(toks, i + 1, Obj(<<>>, <<>>))
           [] OTHER -> ParseFail

\* the elements of an array after "[" or ",", up to and including "]"
ParseElements(toks, i, acc) ==
    LET e == ParseValue(toks, i) IN
    IF ~e.ok \/ e.next > Len(toks) THEN ParseFail
    ELSE CASE toks[e.next] = "]" ->
                [ok |-> TRUE, val |-> Arr(Append(acc, e.val)), next |-> e.next + 1]
           [] toks[e.next] = "," -> ParseElements(toks, e.next + 1, Append(acc, e.val))
           [] OTHER -> ParseFail

\* the members of an object after "{" or ",", up to and including "}";
\* a repeated key keeps its first position and takes the last value
ParseMembers(toks, i, acc) ==
    IF i + 1 > Len(toks) \/ toks[i] \notin StrLexemes \/ toks[i + 1] # ":" THEN ParseFail
    ELSE LET e == ParseValue(toks, i + 2) IN
         IF ~e.ok \/ e.next > Len(toks) THEN ParseFail
         ELSE LET d == SetItem(acc, Unquote(toks[i]), e.val) IN
              CASE toks[e.next] = "}" -> [ok |-> TRUE, val |-> d, next |-> e.next + 1]
                [] toks[e.next] = "," -> ParseMembers(toks, e.next + 1, d)
                [] OTHER -> ParseFail

\* json.loads(text): ok is FALSE where Python raises JSONDecodeError
\* (no value, or extra data after the value)
Loads(text) ==
    LET r == ParseValue(text, 1) IN
    IF r.ok /\ r.next = Len(text) + 1
    THEN [ok |-> TRUE, val |-> r.val]
    ELSE [ok |-> FALSE, val |-> None]

(***************************************************************************)
(* The texts the completion endpoint is taken to return.                   *)
(***************************************************************************)
RECURSIVE SampleValues(_)
\* JSON values of nesting depth at most d, one element or member per container
SampleValues(d) ==
    LET base == {Num(85), Str(<<"x">>), Arr(<<>>), Obj(<<>>, <<>>)} IN
    IF d = 0 THEN base
    ELSE LET inner == SampleValues(d - 1) IN
         base \cup {Arr(<<v>>) : v \in inner}
              \cup {Obj(<<"performance_score">>, <<v>>) : v \in inner}

\* two answers of the documented shapes: a list of two objects, an object of two keys
ShapedValues ==
    { Arr(<< Obj(<<"title">>, <<Str(<<"x">>)>>), Obj(<<"title">>, <<Str(<<"x">>)>>) >>),
      Obj(<<"performance_score", "title">>, <<Num(85), Str(<<"x">>)>>) }

RECURSIVE Dumps(_)
RECURSIVE DumpsElements(_, _)
RECURSIVE DumpsMembers(_, _)

\* the JSON text of a value, as its lexemes
Dumps(v) ==
    CASE v.kind = "num" -> <<NumLexeme(v.n)>>
      [] v.kind = "str" -> <<Quote(v.atom[1])>>
      [] v.kind = "bool" -> v.atom
      [] v.kind = "null" -> <<"null">>
      [] v.kind = "arr" -> <<"[">> \o DumpsElements(v.items, 1) \o <<"]">>
      [] v.kind = "obj" -> <<"{">> \o DumpsMembers(v, 1) \o <<"}">>

DumpsElements(its, i) ==
    IF i > Len(its) THEN <<>>
    ELSE Dumps(its[i]) \o (IF i < Len(its) THEN <<",">> ELSE <<>>) \o DumpsElements(its, i + 1)

DumpsMembers(d, i) ==
    IF i > Len(d.keys) THEN <<>>
    ELSE <<Quote(d.keys[i]), ":">> \o Dumps(d.items[i])
         \o (IF i < Len(d.keys) THEN <<",">> ELSE <<>>) \o DumpsMembers(d, i + 1)

JsonTexts == {Dumps(v) : v \in SampleValues(MaxDepth) \cup ShapedValues}

\* answers that are not JSON: a JSON text cut short, a JSON text after a sentence,
\* plain prose, a language code, and the empty answer
BrokenTexts ==
    {SubSeq(t, 1, Len(t) - 1) : t \in JsonTexts} \cup {<<"Sure, here is the analysis:">> \o t : t \in {<<"{", "}">>}}
        \cup {<<"The market is growing.">>, <<"fr">>}

CompletionTexts == JsonTexts \cup {t \in BrokenTexts : ~Loads(t).ok}

(***************************************************************************)
(* BaseAgent: formatting, validation, the completion client.               *)
(***************************************************************************)
\* str(v) as an f-string interpolates it
Fmt(v) ==
    CASE v.kind = "str" -> v.atom
      [] v.kind = "num" -> IF v.atom # <<>> THEN v.atom ELSE <<ToString(v.n)>>
      [] v.kind = "null" -> <<"None">>
      [] v.kind = "bool" -> IF v.atom = <<"true">> THEN <<"True">> ELSE <<"False">>
      [] OTHER -> <<"<repr>">>

\* datetime.utcnow().isoformat(): the clock is not modelled
Timestamp == S("<utcnow>")

\* BaseAgent.format_error_response
format_error_response(name, error_message) ==
    Obj(<<"success", "error", "agent", "timestamp">>,
        <<Bool(FALSE), Str(error_message), S(name), Timestamp>>)

\* a success envelope that also carries an empty 'error' field
format_success_response_with_error(name, data) ==
    Obj(<<"success", "data", "error", "agent", "timestamp">>,
        <<Bool(TRUE), data, None, S(name), Timestamp>>)

\* BaseAgent.format_success_response
format_success_response(name, data) ==
    Obj(<<"success", "data", "agent", "timestamp">>,
        <<Bool(TRUE), data, S(name), Timestamp>>)

\* the first field of required_fields that request_data lacks or holds falsy,
\* "" when there is none: validate_request returns False exactly when there is one,
\* and prints it
MissingField(request_data, required_fields) ==
    LET bad == {i \in 1..Len(required_fields) :
                   ~Has(request_data, required_fields[i])
                   \/ ~Truthy(Item(request_data, required_fields[i]))}
    IN IF bad = {} THEN ""
       ELSE required_fields[CHOOSE i \in bad : \A j \in bad : i <= j]

\* a validator that tests only `field not in request_data`, without the falsy test
validate_request_present(request_data, required_fields) ==
    \A i \in 1..Len(required_fields) : Has(request_data, required_fields[i])

\* BaseAgent.validate_request
validate_request(request_data, required_fields) ==
    MissingField(request_data, required_fields) = ""

\* a completion client that returns the bare failure description
call_openai_gpt_bare(outcome) ==
    IF outcome.raises THEN outcome.err ELSE outcome.content

\* what call_openai_gpt returns: the completion text, or, when the client call
\* raises e, the text "Error: Unable to process request - {e}"
ErrorPrefix == "Error: Unable to process request - "

call_openai_gpt(outcome) ==
    IF outcome.raises THEN <<ErrorPrefix>> \o outcome.err ELSE outcome.content

(***************************************************************************)
(* One invocation of process_request: a frame.  status is "calling" while  *)
(* the handler awaits call_openai_gpt, "returned" with its envelope in     *)
(* result, "raised" when an exception leaves process_request.              *)
(***************************************************************************)
NoFrame ==
    [agent |-> "", request_data |-> None, dispatched |-> FALSE, h |-> "",
     status |-> "none", step |-> "",
     i |-> 0, acc |-> <<>>, tmp |-> None, outbound |-> 0, responses |-> <<>>,
     failures |-> <<>>, printed |-> <<>>, result |-> None, exc |-> <<>>]

\* `return value` from the handler
Return(f, envelope) == [f EXCEPT !.status = "returned", !.result = envelope]

\* an exception leaves the handler
Raise(f, msg) == [f EXCEPT !.status = "raised", !.exc = msg]

\* `await self.call_openai_gpt(messages)`: one outbound completion call
Await(f, step) == [f EXCEPT !.status = "calling", !.step = step, !.outbound = @ + 1]

\* the handler's validation: on a missing field the validator prints it and the
\* handler returns its fixed error message
Rejected(request_data, required_fields) == ~validate_request(request_data, required_fields)

\* a rejection whose error message goes on to name the missing field
RejectNamingField(f, request_data, required_fields, message) ==
    Return([f EXCEPT !.printed = Append(@, MissingField(request_data, required_fields))],
           format_error_response(f.agent,
               message \o <<": ", MissingField(request_data, required_fields)>>))

Reject(f, request_data, required_fields, message) ==
    Return([f EXCEPT !.printed = Append(@, MissingField(request_data, required_fields))],
           format_error_response(f.agent, message))

\* the handlers' literal "Missing required fields for <capability>", word by word
MissingRequiredFields(capability) ==
    <<"Missing", " ", "required", " ", "fields", " ", "for", " ">> \o capability

(***************************************************************************)
(* MarketResearchAgent.                                                    *)
(***************************************************************************)
\* self.created_at.isoformat()
CreatedAt == S("<created_at>")

\* the fallback of _analyze_market for a completion that is not JSON
analyze_market_fallback(ai_response) ==
    Obj(<<"analysis_text", "market_size", "growth_rate", "recommendations">>,
        << Str(ai_response),
           Obj(<<"value", "currency", "year">>, <<S("Data not available"), S("USD"), S("2024")>>),
           S("To be determined"),
           StrList(<<"Conduct detailed market survey", "Engage local partners">>) >>)

\* _analyze_market up to its completion call
analyze_market(f) ==
    IF Rejected(f.request_data, <<"product_name", "target_country">>)
    THEN Reject(f, f.request_data, <<"product_name", "target_country">>,
                MissingRequiredFields(<<"market", " ", "analysis">>))
    ELSE Await(f, "main")

\* _analyze_market from the completion text on
analyze_market_resume(f, ai_response) ==
    LET parsed == Loads(ai_response)
        market_data == IF parsed.ok THEN parsed.val ELSE analyze_market_fallback(ai_response)
    IN Return(f, format_success_response(f.agent,
           Obj(<<"market_analysis", "product", "target_country", "analysis_date">>,
               << market_data, Item(f.request_data, "product_name"),
                  Item(f.request_data, "target_country"), CreatedAt >>)))

\* str.lower() on the segments of a str
Lower(seg) ==
    CASE seg = "Italy" -> "italy"
      [] seg = "Coffee" -> "coffee"
      [] seg = "FR" -> "fr"
      [] OTHER -> seg

LowerStr(s) == [k \in 1..Len(s) |-> Lower(s[k])]

\* str.title() on the segments of a str
Title(seg) == CASE seg = "buyer" -> "Buyer" [] OTHER -> seg

TitleStr(s) == [k \in 1..Len(s) |-> Title(s[k])]

\* len(x) of a list, a dict or a str (a str counts its segments)
PyLen(v) == Len(v.items) + Len(v.keys) + Len(v.atom)

\* whether _generate_mock_contacts raises AttributeError: str methods are called on
\* country, on industry and, for the generic contact, on contact_type
mock_contacts_raises(country, industry, contact_type) ==
    \/ ~IsStr(country)
    \/ ~IsStr(industry)
    \/ (~(LowerStr(country.atom) = <<"italy">>
          /\ \E k \in 1..Len(industry.atom) : Lower(industry.atom[k]) = "coffee")
        /\ ~IsStr(contact_type))

ContactKeys ==
    <<"company_name", "contact_person", "position", "email", "phone", "address",
      "company_size", "website", "description", "verified", "industry", "country">>

\* _generate_mock_contacts, where it does not raise
generate_mock_contacts(country, industry, contact_type) ==
    IF LowerStr(country.atom) = <<"italy">>
       /\ \E k \in 1..Len(industry.atom) : Lower(industry.atom[k]) = "coffee"
    THEN Arr(<<
           Obj(ContactKeys,
               << S("Milano Coffee Roasters"), S("Marco Rossi"), S("Procurement Manager"),
                  S("marco.rossi@milanocoffee.it"), S("+39 02 1234567"),
                  S("Via Roma 123, 20121 Milano, Italy"), S("50-100 employees"),
                  S("https://milanocoffee.it"),
                  S("Premium coffee roaster specializing in single-origin beans"),
                  Bool(TRUE), industry, country >>),
           Obj(ContactKeys,
               << S("Italian Coffee Distributors"), S("Giuseppe Bianchi"), S("Import Director"),
                  S("g.bianchi@italiancoffee.com"), S("+39 06 7654321"),
                  S("Via Nazionale 456, 00100 Roma, Italy"), S("100-500 employees"),
                  S("https://italiancoffee.com"),
                  S("Leading coffee distributor serving Italian market"),
                  Bool(TRUE), industry, country >>) >>)
    ELSE Arr(<<
           Obj(ContactKeys,
               << Str(<<"Global ">> \o industry.atom \o <<" Corp">>), S("John Smith"),
                  Str(TitleStr(contact_type.atom) \o <<" Manager">>),
                  Str(<<"j.smith@global">> \o LowerStr(industry.atom) \o <<".com">>),
                  S("+1 555 123 4567"),
                  Str(<<"123 Business St, ">> \o country.atom),
                  S("100-500 employees"),
                  Str(<<"https://global">> \o LowerStr(industry.atom) \o <<".com">>),
                  Str(<<"Leading ">> \o industry.atom \o <<" company in ">> \o country.atom),
                  Bool(TRUE), industry, country >>) >>)

AttributeError == <<"object has no attribute 'lower'">>

\* _discover_contacts up to its completion call
discover_contacts(f) ==
    IF Rejected(f.request_data, <<"country", "industry">>)
    THEN Reject(f, f.request_data, <<"country", "industry">>,
                MissingRequiredFields(<<"contact", " ", "discovery">>))
    ELSE Await(f, "main")

\* _discover_contacts from the completion text on
discover_contacts_resume(f, ai_response) ==
    LET country == Item(f.request_data, "country")
        industry == Item(f.request_data, "industry")
        company_size == Get(f.request_data, "company_size", S("any"))
        contact_type == Get(f.request_data, "contact_type", S("buyer"))
        parsed == Loads(ai_response)
        mockRaises == mock_contacts_raises(country, industry, contact_type)
        mock == generate_mock_contacts(country, industry, contact_type)
        full(contacts) ==
            Return(f, format_success_response(f.agent,
                Obj(<<"contacts", "total_found", "search_criteria">>,
                    << contacts, Num(PyLen(contacts)),
                       Obj(<<"country", "industry", "company_size", "contact_type">>,
                           <<country, industry, company_size, contact_type>>) >>)))
        \* `except Exception`: mock data again, which raises again if it raised before
        sample ==
            IF mockRaises THEN Raise(f, AttributeError)
            ELSE Return(f, format_success_response(f.agent,
                     Obj(<<"contacts", "total_found", "note">>,
                         << mock, Num(PyLen(mock)),
                            S("Using sample data due to API limitations") >>)))
    IN IF parsed.ok
       THEN IF HasLen(parsed.val) THEN full(parsed.val) ELSE sample
       ELSE IF mockRaises THEN sample ELSE full(mock)

\* a fallback of _analyze_trends that keeps a notice in place of the completion text
analyze_trends_fallback_notice(ai_response) ==
    Obj(<<"trends_text", "market_outlook", "recommendations">>,
        << S("Analysis unavailable"), S("neutral"),
           StrList(<<"Conduct detailed trend analysis", "Monitor market developments">>) >>)

\* the fallback of _analyze_trends for a completion that is not JSON
analyze_trends_fallback(ai_response) ==
    Obj(<<"trends_text", "market_outlook", "recommendations">>,
        << Str(ai_response), S("neutral"),
           StrList(<<"Conduct detailed trend analysis", "Monitor market developments">>) >>)

\* _analyze_trends up to its completion call
analyze_trends(f) ==
    IF Rejected(f.request_data, <<"country">>)
    THEN Reject(f, f.request_data, <<"country">>,
                MissingRequiredFields(<<"trend", " ", "analysis">>))
    ELSE Await(f, "main")

\* _analyze_trends from the completion text on
analyze_trends_resume(f, ai_response) ==
    LET parsed == Loads(ai_response)
        trends_data == IF parsed.ok THEN parsed.val ELSE analyze_trends_fallback(ai_response)
    IN Return(f, format_success_response(f.agent,
           Obj(<<"trends_analysis", "country", "industry", "timeframe">>,
               << trends_data, Item(f.request_data, "country"),
                  Get(f.request_data, "industry", S("General")),
                  Get(f.request_data, "timeframe", S("2024-2025")) >>)))

\* product.get(...) raises AttributeError unless every item the loop reaches is a
\* dict; a truthy products value that is no list (a str, a number, a dict) raises
\* at its first item
ProductAt(products, i) == IF IsList(products) THEN products.items[i] ELSE None

ProductCount(products) == IF IsList(products) THEN Len(products.items) ELSE 1

\* the fallback opportunity of _match_opportunities for a completion that is not JSON
match_opportunities_fallback(product) ==
    LET product_name == Get(product, "name", S("Unknown Product")) IN
    Obj(<<"title", "description", "market", "potential_value", "confidence",
          "matched_product", "requirements", "next_steps">>,
        << Str(<<"Export Opportunity for ">> \o Fmt(product_name)),
           Str(<<"Potential market opportunity for ">> \o Fmt(product_name)
                   \o <<" in international markets">>),
           S("Global"), S("To be determined"), Num(70), product,
           StrList(<<"Market research", "Regulatory compliance">>),
           StrList(<<"Contact potential buyers", "Prepare samples">>) >>)

RECURSIVE TagOpportunities(_, _, _, _)
\* `for opp in product_opportunities: opp['matched_product'] = product; append`:
\* the first item that is no dict raises TypeError, which the handler swallows,
\* keeping what was appended before it
TagOpportunities(acc, elems, j, product) ==
    IF j > Len(elems) \/ ~IsDict(elems[j]) THEN acc
    ELSE TagOpportunities(Append(acc, SetItem(elems[j], "matched_product", product)),
                          elems, j + 1, product)

\* the top of the product loop of _match_opportunities: the next completion call,
\* or the envelope after the last product
match_opportunities_loop(f) ==
    LET products == Item(f.request_data, "products") IN
    IF f.i > ProductCount(products)
    THEN Return(f, format_success_response(f.agent,
             Obj(<<"opportunities", "total_found", "products_analyzed">>,
                 <<Arr(f.acc), Num(Len(f.acc)), Num(PyLen(products))>>)))
    ELSE IF ~IsDict(ProductAt(products, f.i)) THEN Raise(f, AttributeError)
    ELSE Await(f, "main")

\* _match_opportunities up to its first completion call
match_opportunities(f) ==
    IF Rejected(f.request_data, <<"products">>)
    THEN Reject(f, f.request_data, <<"products">>,
                MissingRequiredFields(<<"opportunity", " ", "matching">>))
    ELSE match_opportunities_loop([f EXCEPT !.i = 1])

\* _match_opportunities from a completion text on
match_opportunities_resume(f, ai_response) ==
    LET product == ProductAt(Item(f.request_data, "products"), f.i)
        parsed == Loads(ai_response)
        opportunities ==
            IF parsed.ok
            THEN TagOpportunities(f.acc, IF IsList(parsed.val) THEN parsed.val.items ELSE <<>>,
                                  1, product)
            ELSE Append(f.acc, match_opportunities_fallback(product))
    IN match_opportunities_loop([f EXCEPT !.acc = opportunities, !.i = @ + 1])

(***************************************************************************)
(* TranslationAgent.                                                       *)
(***************************************************************************)
\* the keys of self.supported_languages
SupportedCodes ==
    {"en", "es", "fr", "de", "it", "pt", "ru", "zh", "ja", "ko",
     "ar", "hi", "id", "th", "vi", "tr", "pl", "nl", "sv", "da"}

\* self.supported_languages.get(code, "Unknown")
LanguageName(code) ==
    CASE code = "en" -> "English" [] code = "es" -> "Spanish" [] code = "fr" -> "French"
      [] code = "de" -> "German" [] code = "it" -> "Italian" [] code = "pt" -> "Portuguese"
      [] code = "ru" -> "Russian" [] code = "zh" -> "Chinese" [] code = "ja" -> "Japanese"
      [] code = "ko" -> "Korean" [] code = "ar" -> "Arabic" [] code = "hi" -> "Hindi"
      [] code = "id" -> "Indonesian" [] code = "th" -> "Thai" [] code = "vi" -> "Vietnamese"
      [] code = "tr" -> "Turkish" [] code = "pl" -> "Polish" [] code = "nl" -> "Dutch"
      [] code = "sv" -> "Swedish" [] code = "da" -> "Danish"
      [] OTHER -> "Unknown"

\* `target_language in self.supported_languages`
Supported(v) == IsStr(v) /\ Len(v.atom) = 1 /\ v.atom[1] \in SupportedCodes

Whitespace == {" ", "\n"}

RECURSIVE Strip(_)
\* str.strip(): leading and trailing whitespace segments removed
Strip(s) ==
    IF s = <<>> THEN s
    ELSE IF Head(s) \in Whitespace THEN Strip(Tail(s))
    ELSE IF s[Len(s)] \in Whitespace THEN Strip(SubSeq(s, 1, Len(s) - 1))
    ELSE s

\* a detection that trims the completion text and keeps its case
detect_language_internal_cased(detected) ==
    IF Supported(Str(Strip(detected))) THEN Str(Strip(detected)) ELSE S("en")

\* _detect_language_internal from the completion text on: the trimmed, lower-cased
\* text when it is a supported code, else 'en'
detect_language_internal(detected) ==
    LET detected_code == LowerStr(Strip(detected)) IN
    IF Supported(Str(detected_code)) THEN Str(detected_code) ELSE S("en")

\* _translate_text on request_data up to its first completion call
translate_text(f, request_data) ==
    IF Rejected(request_data, <<"text", "target_language">>)
    THEN Reject(f, request_data, <<"text", "target_language">>,
                MissingRequiredFields(<<"text", " ", "translation">>))
    ELSE IF ~Supported(Item(request_data, "target_language"))
    THEN Return(f, format_error_response(f.agent,
             <<"Unsupported target language: ">> \o Fmt(Item(request_data, "target_language"))))
    ELSE Await(f, "translate")

\* the success envelope of _translate_text
translate_text_success(f, request_data, translated_text, detected_language) ==
    Return(f, format_success_response(f.agent,
        Obj(<<"original_text", "translated_text", "source_language", "target_language",
              "context", "confidence">>,
            << Item(request_data, "text"), translated_text, detected_language,
               Item(request_data, "target_language"),
               Get(request_data, "context", S("general")), Float("0.95") >>)))

\* a _translate_text that repeats its translation call once when the call failed
translate_text_resume_retry(f, request_data, reply) ==
    LET source_language == Get(request_data, "source_language", S("auto")) IN
    IF f.step = "translate"
    THEN IF reply # <<>> /\ Head(reply) = ErrorPrefix
         THEN Await(f, "retry")
         ELSE IF source_language = S("auto")
         THEN Await([f EXCEPT !.tmp = Str(reply)], "detect")
         ELSE translate_text_success(f, request_data, Str(reply), source_language)
    ELSE IF f.step = "retry"
    THEN translate_text_success(f, request_data, Str(reply), source_language)
    ELSE translate_text_success(f, request_data, f.tmp, detect_language_internal(reply))

\* _translate_text from a completion text on: after the translation the source
\* language is detected by a second completion call when it is 'auto'
translate_text_resume(f, request_data, reply) ==
    LET source_language == Get(request_data, "source_language", S("auto")) IN
    IF f.step = "translate"
    THEN IF source_language = S("auto")
         THEN Await([f EXCEPT !.tmp = Str(reply)], "detect")
         ELSE translate_text_success(f, request_data, Str(reply), source_language)
    ELSE translate_text_success(f, request_data, f.tmp, detect_language_internal(reply))

\* the request _batch_translate builds for text i (1-based here, enumerate is 0-based)
translation_request(request_data, i) ==
    Obj(<<"text", "target_language", "source_language", "context">>,
        << Item(request_data, "texts").items[i], Item(request_data, "target_language"),
           Get(request_data, "source_language", S("auto")),
           Get(request_data, "context", S("general")) >>)

\* the entry _batch_translate appends for text i from the envelope of _translate_text
batch_entry(request_data, i, result) ==
    LET text == Item(request_data, "texts").items[i] IN
    IF Truthy(Item(result, "success"))
    THEN Obj(<<"index", "original", "translated", "success">>,
             <<Num(i - 1), text, Item(Item(result, "data"), "translated_text"), Bool(TRUE)>>)
    ELSE Obj(<<"index", "original", "translated", "success", "error">>,
             <<Num(i - 1), text, text, Bool(FALSE), Item(result, "error")>>)

\* sum(1 for t in translations if t['success'])
SuccessCount(translations) ==
    Cardinality({k \in 1..Len(translations) : Truthy(Item(translations[k], "success"))})

RECURSIVE batch_translate_loop(_)
\* the loop of _batch_translate from text f.i on: up to the next completion call,
\* or the envelope after the last text
batch_translate_loop(f) ==
    LET texts == Item(f.request_data, "texts") IN
    IF f.i > Len(texts.items)
    THEN Return(f, format_success_response(f.agent,
             Obj(<<"translations", "total_texts", "successful_translations", "target_language">>,
                 << Arr(f.acc), Num(Len(texts.items)), Num(SuccessCount(f.acc)),
                    Item(f.request_data, "target_language") >>)))
    ELSE LET r == translate_text(f, translation_request(f.request_data, f.i)) IN
         IF r.status = "calling" THEN r
         ELSE batch_translate_loop(
                  [r EXCEPT !.status = "none", !.result = None, !.i = @ + 1,
                            !.acc = Append(@, batch_entry(f.request_data, f.i, r.result))])

\* _batch_translate up to its first completion call
batch_translate(f) ==
    IF Rejected(f.request_data, <<"texts", "target_language">>)
    THEN Reject(f, f.request_data, <<"texts", "target_language">>,
                MissingRequiredFields(<<"batch", " ", "translation">>))
    ELSE IF ~IsList(Item(f.request_data, "texts"))
    THEN Return(f, format_error_response(f.agent, <<"Texts must be a list">>))
    ELSE batch_translate_loop([f EXCEPT !.i = 1])

\* _batch_translate from a completion text on
batch_translate_resume(f, reply) ==
    LET r == translate_text_resume(f, translation_request(f.request_data, f.i), reply) IN
    IF r.status = "calling" THEN r
    ELSE batch_translate_loop(
             [r EXCEPT !.status = "none", !.result = None, !.i = @ + 1, !.tmp = None,
                       !.acc = Append(@, batch_entry(f.request_data, f.i, r.result))])

\* the fallback of _provide_cultural_context for a completion that is not JSON
cultural_context_fallback(ai_response, country) ==
    Obj(<<"cultural_advice", "country", "tips">>,
        << Str(ai_response), country,
           StrList(<<"Research local customs", "Be respectful of cultural differences">>) >>)

\* _provide_cultural_context up to its completion call
provide_cultural_context(f) ==
    IF Rejected(f.request_data, <<"country">>)
    THEN Reject(f, f.request_data, <<"country">>,
                MissingRequiredFields(<<"cultural", " ", "context">>))
    ELSE Await(f, "main")

\* _provide_cultural_context from the completion text on
provide_cultural_context_resume(f, ai_response) ==
    LET country == Item(f.request_data, "country")
        parsed == Loads(ai_response)
        cultural_data ==
            IF parsed.ok THEN parsed.val ELSE cultural_context_fallback(ai_response, country)
    IN Return(f, format_success_response(f.agent,
           Obj(<<"cultural_context", "country", "business_context", "communication_type">>,
               << cultural_data, country,
                  Get(f.request_data, "business_context", S("general")),
                  Get(f.request_data, "communication_type", S("email")) >>)))

\* the fallback of _provide_business_etiquette for a completion that is not JSON
business_etiquette_fallback(ai_response) ==
    Obj(<<"etiquette_advice", "general_tips">>,
        << Str(ai_response),
           StrList(<<"Be respectful", "Research local customs", "Be punctual">>) >>)

\* _provide_business_etiquette up to its completion call
provide_business_etiquette(f) ==
    IF Rejected(f.request_data, <<"country", "situation">>)
    THEN Reject(f, f.request_data, <<"country", "situation">>,
                MissingRequiredFields(<<"business", " ", "etiquette">>))
    ELSE Await(f, "main")

\* _provide_business_etiquette from the completion text on
provide_business_etiquette_resume(f, ai_response) ==
    LET parsed == Loads(ai_response)
        etiquette_data ==
            IF parsed.ok THEN parsed.val ELSE business_etiquette_fallback(ai_response)
    IN Return(f, format_success_response(f.agent,
           Obj(<<"business_etiquette", "country", "situation">>,
               << etiquette_data, Item(f.request_data, "country"),
                  Item(f.request_data, "situation") >>)))

\* _detect_language up to its completion call
detect_language(f) ==
    IF Rejected(f.request_data, <<"text">>)
    THEN Reject(f, f.request_data, <<"text">>,
                MissingRequiredFields(<<"language", " ", "detection">>))
    ELSE Await(f, "detect")

\* _detect_language from the completion text on
detect_language_resume(f, reply) ==
    LET detected_language == detect_language_internal(reply) IN
    Return(f, format_success_response(f.agent,
        Obj(<<"text", "detected_language", "language_name", "confidence">>,
            << Item(f.request_data, "text"), detected_language,
               S(LanguageName(detected_language.atom[1])), Float("0.9") >>)))

(***************************************************************************)
(* BusinessIntelligenceAgent.                                              *)
(***************************************************************************)
\* the fallback of _analyze_user_performance for a completion that is not JSON
analyze_user_performance_fallback(ai_response) ==
    Obj(<<"performance_score", "profile_completion", "recommendations", "analysis_text">>,
        << Num(75), Num(80),
           StrList(<<"Complete your business profile", "Add more product photos",
                     "Respond to messages faster">>),
           Str(ai_response) >>)

\* _analyze_user_performance up to its completion call
analyze_user_performance(f) ==
    IF Rejected(f.request_data, <<"user_id">>)
    THEN Reject(f, f.request_data, <<"user_id">>,
                MissingRequiredFields(<<"user", " ", "analytics">>))
    ELSE Await(f, "main")

\* _analyze_user_performance from the completion text on
analyze_user_performance_resume(f, ai_response) ==
    LET parsed == Loads(ai_response)
        analytics_data ==
            IF parsed.ok THEN parsed.val ELSE analyze_user_performance_fallback(ai_response)
    IN Return(f, format_success_response(f.agent,
           Obj(<<"user_analytics", "user_id", "time_period", "generated_at">>,
               << analytics_data, Item(f.request_data, "user_id"),
                  Get(f.request_data, "time_period", S("30_days")), Timestamp >>)))

\* the fallback insight of _analyze_product_performance for a completion that is not JSON
analyze_product_performance_fallback(ai_response, product) ==
    Obj(<<"product", "performance_score", "analysis_text", "optimization_tips">>,
        << product, Num(70), Str(ai_response),
           StrList(<<"Improve product description", "Add more images">>) >>)

\* whether sum(p.get('performance_score', 70) for p in product_insights) raises
\* TypeError: some score is no number
ScoresRaise(product_insights) ==
    \E k \in 1..Len(product_insights) :
        Get(product_insights[k], "performance_score", Num(70)).kind \notin {"num", "bool"}

RECURSIVE ScoreSum(_, _)
ScoreSum(product_insights, k) ==
    IF k > Len(product_insights) THEN 0
    ELSE LET v == Get(product_insights[k], "performance_score", Num(70)) IN
         (IF v.kind = "bool" THEN (IF Truthy(v) THEN 1 ELSE 0) ELSE v.n)
             + ScoreSum(product_insights, k + 1)

\* the top of the product loop of _analyze_product_performance; the portfolio score
\* is kept to the integer part of the quotient
analyze_product_performance_loop(f) ==
    LET products == Item(f.request_data, "products") IN
    IF f.i > ProductCount(products)
    THEN IF ScoresRaise(f.acc) THEN Raise(f, <<"unsupported operand type(s) for +">>)
         ELSE Return(f, format_success_response(f.agent,
                  Obj(<<"product_insights", "total_products_analyzed", "overall_portfolio_score">>,
                      << Arr(f.acc), Num(PyLen(products)),
                         Num(IF f.acc = <<>> THEN 0 ELSE ScoreSum(f.acc, 1) \div Len(f.acc)) >>)))
    ELSE IF ~IsDict(ProductAt(products, f.i)) THEN Raise(f, AttributeError)
    ELSE Await(f, "main")

\* _analyze_product_performance up to its first completion call
analyze_product_performance(f) ==
    IF Rejected(f.request_data, <<"products">>)
    THEN Reject(f, f.request_data, <<"products">>,
                MissingRequiredFields(<<"product", " ", "insights">>))
    ELSE analyze_product_performance_loop([f EXCEPT !.i = 1])

\* _analyze_product_performance from a completion text on: a decoded dict gets the
\* key 'product'; any other decoded value raises TypeError, which is swallowed
analyze_product_performance_resume(f, ai_response) ==
    LET product == ProductAt(Item(f.request_data, "products"), f.i)
        parsed == Loads(ai_response)
        product_insights ==
            IF parsed.ok
            THEN IF IsDict(parsed.val)
                 THEN Append(f.acc, SetItem(parsed.val, "product", product))
                 ELSE f.acc
            ELSE Append(f.acc, analyze_product_performance_fallback(ai_response, product))
    IN analyze_product_performance_loop([f EXCEPT !.acc = product_insights, !.i = @ + 1])

\* the fallback of _generate_market_recommendations for a completion that is not JSON
generate_market_recommendations_fallback(ai_response) ==
    Obj(<<"recommendations_text", "priority_markets", "strategic_recommendations">>,
        << Str(ai_response),
           Arr(<<Obj(<<"country", "opportunity_score">>, <<S("Global"), Num(75)>>)>>),
           Arr(<<Obj(<<"recommendation", "priority">>,
                     <<S("Conduct market research"), S("high")>>)>>) >>)

\* _generate_market_recommendations up to its completion call; user_profile.get
\* raises AttributeError when user_profile is no dict
generate_market_recommendations(f) ==
    IF Rejected(f.request_data, <<"user_profile">>)
    THEN Reject(f, f.request_data, <<"user_profile">>,
                MissingRequiredFields(<<"market", " ", "recommendations">>))
    ELSE IF ~IsDict(Item(f.request_data, "user_profile")) THEN Raise(f, AttributeError)
    ELSE Await(f, "main")

\* _generate_market_recommendations from the completion text on
generate_market_recommendations_resume(f, ai_response) ==
    LET parsed == Loads(ai_response)
        recommendations_data ==
            IF parsed.ok THEN parsed.val
            ELSE generate_market_recommendations_fallback(ai_response)
    IN Return(f, format_success_response(f.agent,
           Obj(<<"market_recommendations", "user_country", "industry">>,
               << recommendations_data,
                  Get(Item(f.request_data, "user_profile"), "country", S("Unknown")),
                  Get(f.request_data, "industry", S("General")) >>)))

\* the fallback of _analyze_competition for a completion that is not JSON
analyze_competition_fallback(ai_response) ==
    Obj(<<"analysis_text", "market_dynamics", "recommendations">>,
        << Str(ai_response),
           Obj(<<"competition_intensity">>, <<S("medium")>>),
           StrList(<<"Conduct detailed competitive research">>) >>)

\* _analyze_competition up to its completion call
analyze_competition(f) ==
    IF Rejected(f.request_data, <<"industry", "target_market">>)
    THEN Reject(f, f.request_data, <<"industry", "target_market">>,
                MissingRequiredFields(<<"competitive", " ", "analysis">>))
    ELSE Await(f, "main")

\* an _analyze_competition that stamps the decoded structure with the industry
analyze_competition_resume_stamped(f, ai_response) ==
    LET parsed == Loads(ai_response)
        competition_data ==
            IF parsed.ok
            THEN (IF IsDict(parsed.val)
                  THEN SetItem(parsed.val, "industry", Item(f.request_data, "industry"))
                  ELSE parsed.val)
            ELSE analyze_competition_fallback(ai_response)
    IN Return(f, format_success_response(f.agent,
           Obj(<<"competitive_analysis", "industry", "target_market">>,
               << competition_data, Item(f.request_data, "industry"),
                  Item(f.request_data, "target_market") >>)))

\* _analyze_competition from the completion text on
analyze_competition_resume(f, ai_response) ==
    LET parsed == Loads(ai_response)
        competition_data ==
            IF parsed.ok THEN parsed.val ELSE analyze_competition_fallback(ai_response)
    IN Return(f, format_success_response(f.agent,
           Obj(<<"competitive_analysis", "industry", "target_market">>,
               << competition_data, Item(f.request_data, "industry"),
                  Item(f.request_data, "target_market") >>)))

\* the fallback of _identify_growth_opportunities for a completion that is not JSON
identify_growth_opportunities_fallback(ai_response) ==
    Obj(<<"growth_analysis", "growth_opportunities">>,
        << Str(ai_response),
           Arr(<<Obj(<<"type", "title", "potential_impact", "key_steps">>,
                     << S("market_expansion"), S("Explore new markets"), S("high"),
                        StrList(<<"Market research", "Local partnerships">>) >>)>>) >>)

\* _identify_growth_opportunities up to its completion call; user_data.get raises
\* AttributeError when user_data is no dict
identify_growth_opportunities(f) ==
    IF Rejected(f.request_data, <<"user_data">>)
    THEN Reject(f, f.request_data, <<"user_data">>,
                MissingRequiredFields(<<"growth", " ", "opportunities">>))
    ELSE IF ~IsDict(Item(f.request_data, "user_data")) THEN Raise(f, AttributeError)
    ELSE Await(f, "main")

\* _identify_growth_opportunities from the completion text on
identify_growth_opportunities_resume(f, ai_response) ==
    LET parsed == Loads(ai_response)
        growth_data ==
            IF parsed.ok THEN parsed.val
            ELSE identify_growth_opportunities_fallback(ai_response)
    IN Return(f, format_success_response(f.agent,
           Obj(<<"growth_opportunities", "analysis_date">>, <<growth_data, Timestamp>>)))

(***************************************************************************)
(* process_request of the three agents, and the dispatcher.                *)
(***************************************************************************)
MarketResearchAgent == "MarketResearchAgent"
TranslationAgent == "TranslationAgent"
BusinessIntelligenceAgent == "BusinessIntelligenceAgent"

AgentNames == {MarketResearchAgent, TranslationAgent, BusinessIntelligenceAgent}

\* the request types each process_request dispatches on
RequestTypes(agent) ==
    CASE agent = MarketResearchAgent ->
            {"market_analysis", "contact_discovery", "trend_analysis", "opportunity_matching"}
      [] agent = TranslationAgent ->
            {"text_translation", "batch_translation", "cultural_context",
             "business_etiquette", "language_detection"}
      [] agent = BusinessIntelligenceAgent ->
            {"user_analytics", "product_insights", "market_recommendations",
             "competitive_analysis", "growth_opportunities"}

\* a dispatcher that knows the request types of every agent
HandlerOfAnyAgent(agent, request_data) ==
    LET request_type == Get(request_data, "type", None) IN
    IF IsStr(request_type) /\ Len(request_type.atom) = 1
       /\ request_type.atom[1] \in UNION {RequestTypes(a) : a \in {MarketResearchAgent,
                                            TranslationAgent, BusinessIntelligenceAgent}}
    THEN request_type.atom[1] ELSE ""

\* the handler process_request selects: the request type when the agent has it
HandlerOf(agent, request_data) ==
    LET request_type == Get(request_data, "type", None) IN
    IF IsStr(request_type) /\ Len(request_type.atom) = 1
       /\ request_type.atom[1] \in RequestTypes(agent)
    THEN request_type.atom[1] ELSE ""

\* the handler up to its first completion call
HandlerStart(f) ==
    CASE f.h = "market_analysis" -> analyze_market(f)
      [] f.h = "contact_discovery" -> discover_contacts(f)
      [] f.h = "trend_analysis" -> analyze_trends(f)
      [] f.h = "opportunity_matching" -> match_opportunities(f)
      [] f.h = "text_translation" -> translate_text(f, f.request_data)
      [] f.h = "batch_translation" -> batch_translate(f)
      [] f.h = "cultural_context" -> provide_cultural_context(f)
      [] f.h = "business_etiquette" -> provide_business_etiquette(f)
      [] f.h = "language_detection" -> detect_language(f)
      [] f.h = "user_analytics" -> analyze_user_performance(f)
      [] f.h = "product_insights" -> analyze_product_performance(f)
      [] f.h = "market_recommendations" -> generate_market_recommendations(f)
      [] f.h = "competitive_analysis" -> analyze_competition(f)
      [] f.h = "growth_opportunities" -> identify_growth_opportunities(f)
      [] OTHER -> Return(f, format_error_response(f.agent,
                      <<"Unknown request type: ">> \o Fmt(Get(f.request_data, "type", None))))

\* the handler from the return of call_openai_gpt on
HandlerResume(f, reply) ==
    CASE f.h = "market_analysis" -> analyze_market_resume(f, reply)
      [] f.h = "contact_discovery" -> discover_contacts_resume(f, reply)
      [] f.h = "trend_analysis" -> analyze_trends_resume(f, reply)
      [] f.h = "opportunity_matching" -> match_opportunities_resume(f, reply)
      [] f.h = "text_translation" -> translate_text_resume(f, f.request_data, reply)
      [] f.h = "batch_translation" -> batch_translate_resume(f, reply)
      [] f.h = "cultural_context" -> provide_cultural_context_resume(f, reply)
      [] f.h = "business_etiquette" -> provide_business_etiquette_resume(f, reply)
      [] f.h = "language_detection" -> detect_language_resume(f, reply)
      [] f.h = "user_analytics" -> analyze_user_performance_resume(f, reply)
      [] f.h = "product_insights" -> analyze_product_performance_resume(f, reply)
      [] f.h = "market_recommendations" -> generate_market_recommendations_resume(f, reply)
      [] f.h = "competitive_analysis" -> analyze_competition_resume(f, reply)
      [] f.h = "growth_opportunities" -> identify_growth_opportunities_resume(f, reply)

\* process_request up to the handler's first completion call (log_request's
\* counter is the caller's to add)
process_request(agent, request_data) ==
    LET f == [NoFrame EXCEPT !.agent = agent, !.request_data = request_data,
                             !.dispatched = TRUE,
                             !.h = HandlerOf(agent, request_data)]
    IN \* `request_data.get('type')` on a request that is no dict
       IF ~IsDict(request_data) THEN Raise(f, <<"object has no attribute 'get'">>)
       ELSE HandlerStart(f)

\* process_request from the return of call_openai_gpt on
process_request_resume(f, outcome) ==
    HandlerResume([f EXCEPT !.responses = Append(@, call_openai_gpt(outcome)),
                            !.failures = Append(@, outcome.raises)],
                  call_openai_gpt(outcome))

\* a not-found envelope that lists the names the system knows, registered or not
route_not_found_all(agent_name, registered) ==
    Obj(<<"success", "error", "available_agents">>,
        << Bool(FALSE), Str(<<"Agent ", agent_name, " not found">>),
           StrList(<<MarketResearchAgent, TranslationAgent, BusinessIntelligenceAgent>>) >>)

\* AgentOrchestrator.route_request for a name that is not registered
route_not_found(agent_name, registered) ==
    Obj(<<"success", "error", "available_agents">>,
        << Bool(FALSE), Str(<<"Agent ", agent_name, " not found">>),
           \* list(self.agents.keys()): the names in registration order
           StrList(SelectSeq(<<MarketResearchAgent, TranslationAgent, BusinessIntelligenceAgent>>,
                             LAMBDA a : a \in registered)) >>)

\* AgentOrchestrator.route_request up to the first completion call of the handler
route_request(registered, agent_name, request_data) ==
    IF agent_name \notin registered
    THEN Return([NoFrame EXCEPT !.request_data = request_data],
                route_not_found(agent_name, registered))
    ELSE process_request(agent_name, request_data)

\* an `except Exception` that answers with a fixed text, without the agent's name
\* or the exception
route_result_opaque(agent_name, f) ==
    IF f.status = "raised"
    THEN Obj(<<"success", "error">>, <<Bool(FALSE), S("Internal error")>>)
    ELSE f.result

\* what route_request returns once process_request has returned or raised:
\* the agent's envelope, or the envelope of its `except Exception`
route_result(agent_name, f) ==
    IF f.status = "raised"
    THEN Obj(<<"success", "error", "agent">>,
             << Bool(FALSE),
                Str(<<"Agent ", agent_name, " failed to process request: ">> \o f.exc),
                S(agent_name) >>)
    ELSE f.result

(***************************************************************************)
(* Inputs: the requests routed to the agents, and what the completion      *)
(* endpoint does.                                                          *)
(***************************************************************************)
\* marks a field a request leaves out
Absent == JV("absent", <<>>, 0, <<>>, <<>>)

EmptyStr == Str(<<>>)

RECURSIVE MakeRequest(_, _)
\* the dict of the given keys and values, without the keys marked Absent
MakeRequest(ks, vs) ==
    IF ks = <<>> THEN Obj(<<>>, <<>>)
    ELSE LET rest == MakeRequest(Tail(ks), Tail(vs)) IN
         IF Head(vs) = Absent THEN rest
         ELSE Obj(<<Head(ks)>> \o rest.keys, <<Head(vs)>> \o rest.items)

Products == {Obj(<<"name">>, <<S("Coffee")>>), S("tea")}

RECURSIVE Lists(_, _)
\* the lists of at most n items of a set
Lists(items, n) ==
    IF n = 0 THEN {<<>>}
    ELSE LET shorter == Lists(items, n - 1) IN
         shorter \cup {Append(l, x) : l \in shorter, x \in items}

\* the values a request may carry under a field
FieldValues(field) ==
    CASE field = "product_name" -> {Absent, EmptyStr, S("Coffee")}
      [] field = "target_country" -> {Absent, EmptyStr, S("Italy")}
      [] field = "country" -> {Absent, EmptyStr, S("Italy"), Num(5)}
      [] field = "industry" -> {Absent, EmptyStr, S("Coffee"), Num(5)}
      [] field = "products" ->
            {Absent, S("abc")} \cup {Arr(l) : l \in Lists(Products, MaxProducts)}
      [] field = "text" -> {Absent, EmptyStr, S("hello")}
      [] field = "target_language" -> {Absent, EmptyStr, S("fr"), S("xx")}
      [] field = "source_language" -> {Absent, S("en")}
      [] field = "texts" ->
            {Absent, S("abc")} \cup {Arr(l) : l \in Lists({S("hello"), EmptyStr}, MaxTexts)}
      [] field = "situation" -> {Absent, EmptyStr, S("first_meeting")}
      [] field = "user_id" -> {Absent, Num(0), Num(7)}
      [] field = "user_profile" ->
            {Absent, Obj(<<>>, <<>>), Obj(<<"country">>, <<S("Italy")>>), S("abc")}
      [] field = "target_market" -> {Absent, EmptyStr, S("Italy")}
      [] field = "user_data" ->
            {Absent, Obj(<<>>, <<>>), Obj(<<"products">>, <<Arr(<<>>)>>), S("abc")}

\* the fields that vary in the requests of a type
FieldsOf(type) ==
    CASE type = "market_analysis" -> <<"product_name", "target_country">>
      [] type = "contact_discovery" -> <<"country", "industry">>
      [] type = "trend_analysis" -> <<"country">>
      [] type = "opportunity_matching" -> <<"products">>
      [] type = "text_translation" -> <<"text", "target_language", "source_language">>
      [] type = "batch_translation" -> <<"texts", "target_language", "source_language">>
      [] type = "cultural_context" -> <<"country">>
      [] type = "business_etiquette" -> <<"country", "situation">>
      [] type = "language_detection" -> <<"text">>
      [] type = "user_analytics" -> <<"user_id">>
      [] type = "product_insights" -> <<"products">>
      [] type = "market_recommendations" -> <<"user_profile">>
      [] type = "competitive_analysis" -> <<"industry", "target_market">>
      [] type = "growth_opportunities" -> <<"user_data">>
      [] OTHER -> <<>>

AllTypes == UNION {RequestTypes(a) : a \in AgentNames}

\* the requests of a type (the type "" stands for a request without a type)
RequestsOf(type) ==
    LET fs == FieldsOf(type)
        choices == {c \in [1..Len(fs) -> UNION {FieldValues(fs[k]) : k \in 1..Len(fs)}] :
                       \A k \in 1..Len(fs) : c[k] \in FieldValues(fs[k])}
    IN {MakeRequest(<<"type">> \o fs, <<IF type = "" THEN Absent ELSE S(type)>> \o c) :
            c \in choices}

Requests ==
    UNION {RequestsOf(t) : t \in AllTypes \cup {"", "sentiment_analysis"}}
        \cup {Arr(<<>>)}      \* a request that is no dict

\* the names requests are routed to: the three agents and one that is never registered
RoutedNames == AgentNames \cup {"ContentModerationAgent"}

\* what the client call of call_openai_gpt does: it returns a text or raises
ClientErrors == {<<"Connection error.">>}

CompletionOutcomes ==
    {[raises |-> FALSE, content |-> t, err |-> <<>>] : t \in CompletionTexts}
        \cup {[raises |-> TRUE, content |-> <<>>, err |-> e] : e \in ClientErrors}

\* the handlers that hand the completion text to json.loads
JsonHandlers ==
    {"market_analysis", "contact_discovery", "trend_analysis", "opportunity_matching",
     "cultural_context", "business_etiquette", "user_analytics", "product_insights",
     "market_recommendations", "competitive_analysis", "growth_opportunities"}

\* the texts given to the handlers that take the completion text as it is (a
\* translation, a language code)
PlainTexts == {<<"bonjour">>, <<"fr">>, <<" ", "FR", "\n">>, <<"Klingon">>, <<>>}

PlainOutcomes ==
    {[raises |-> FALSE, content |-> t, err |-> <<>>] : t \in PlainTexts}
        \cup {[raises |-> TRUE, content |-> <<>>, err |-> e] : e \in ClientErrors}

\* what the client call may do for the handler h
OutcomesFor(h) == IF h \in JsonHandlers THEN CompletionOutcomes ELSE PlainOutcomes

(***************************************************************************)
(* AgentManager.process_market_research_request.                           *)
(***************************************************************************)
\* the request of sub-analysis i: 1 analyze_market, 2 discover_contacts, 3 analyze_trends
SubRequest(research_data, i) ==
    LET product_name == Get(research_data, "product_name", S("Unknown Product"))
        target_country == Get(research_data, "target_country", S("Global"))
        product_category == Get(research_data, "product_category", S("General"))
    IN CASE i = 1 ->
              Obj(<<"type", "product_name", "target_country", "product_category">>,
                  << S("market_analysis"), product_name, target_country,
                     IF Truthy(product_category) THEN product_category ELSE S("General") >>)
         [] i = 2 ->
              Obj(<<"type", "country", "industry", "company_size", "contact_type">>,
                  <<S("contact_discovery"), target_country, product_category, S("any"), S("buyer")>>)
         [] i = 3 ->
              Obj(<<"type", "country", "industry", "timeframe">>,
                  <<S("trend_analysis"), target_country, product_category, S("2024-2025")>>)

ErrorEntries == <<"Market analysis failed", "Contact discovery failed", "Trend analysis failed">>

\* `isinstance(r, dict) and r.get('success')`
Succeeded(r) == IsDict(r) /\ Truthy(Get(r, "success", None))

\* a failure test without `isinstance(r, Exception)`
FailedEnvelopeOnly(r) == IsDict(r) /\ ~Truthy(Get(r, "success", None))

\* `isinstance(r, Exception) or (isinstance(r, dict) and not r.get('success'))`
Failed(r) == r.kind = "exc" \/ (IsDict(r) /\ ~Truthy(Get(r, "success", None)))

\* `r.get('data') if isinstance(r, dict) and r.get('success') else None`
Slot(r) == IF Succeeded(r) THEN Get(r, "data", None) ELSE None

\* the aggregate compiled from the three results of asyncio.gather
comprehensive_result(research_data, results) ==
    Obj(<<"success", "research_id", "product_name", "target_country",
          "market_analysis", "contacts", "trends", "errors">>,
        << Bool(TRUE), Get(research_data, "research_id", None),
           Get(research_data, "product_name", S("Unknown Product")),
           Get(research_data, "target_country", S("Global")),
           Slot(results[1]), Slot(results[2]), Slot(results[3]),
           StrList(SelectSeq(ErrorEntries,
                             LAMBDA e : \E k \in 1..3 : ErrorEntries[k] = e /\ Failed(results[k]))) >>)

\* the research requests
ResearchInputs ==
    {MakeRequest(<<"research_id", "product_name", "target_country", "product_category">>,
                 <<Num(1), n, c, g>>) :
        n \in FieldValues("product_name"), c \in FieldValues("target_country"),
        g \in FieldValues("industry")}

\* what the client call does within a research request
ResearchOutcomes ==
    {[raises |-> FALSE, content |-> t, err |-> <<>>] :
        t \in {Dumps(Obj(<<>>, <<>>)), Dumps(Arr(<<>>)), Dumps(Num(85)),
               <<"The market is growing.">>}}
        \cup {[raises |-> TRUE, content |-> <<>>, err |-> e] : e \in ClientErrors}

\* results of asyncio.gather(..., return_exceptions=True): envelopes as the agents
\* and the dispatcher format them, and the exception of a sub-call that raised
GatherResultSamples ==
    { format_success_response(MarketResearchAgent, Obj(<<"total_found">>, <<Num(0)>>)),
      format_success_response(MarketResearchAgent, Obj(<<>>, <<>>)),
      format_error_response(MarketResearchAgent, MissingRequiredFields(<<"trend", " ", "analysis">>)),
      route_not_found(MarketResearchAgent, {}),
      Exc(<<"Connection error.">>) }

\* total number of requests the agents may log (log_request counts without bound)
MaxRequests == 1

\* the request threads that run at once, and the invocations they make in all
MaxThreads == 2
MaxLogged == 3

\* the client sockets that connect and the messages that are persisted
MaxSockets == 2
MaxMessages == 1
MaxCompanies == 1
MaxProductRows == 1
MaxSessions == 1

(***************************************************************************)
(* State.                                                                  *)
(***************************************************************************)
VARIABLES
    agents,             \* orchestrator.agents: the registered names
    agents_initialized, \* AgentManager.agents_initialized
    running,            \* orchestrator.running
    request_count,      \* request_count of each agent
    pc,                 \* a routed request: "idle", "calling", "returned"
    agent_name,         \* the name it was routed to
    frame,              \* its invocation of process_request
    response,           \* what route_request returned
    rpc,                \* a research request: "idle", "gathering", "gathered", "returned"
    research_data,      \* its argument
    tasks,              \* the invocations of its three sub-analyses
    gather_results,     \* what asyncio.gather returned
    aggregate,          \* what process_market_research_request returned
    overlapped,         \* whether two sub-analyses have been in progress at once
    constructed,        \* whether _initialize_agents succeeded inside AgentManager.__init__
    logged,             \* the calls of log_request that have ended, for each agent
    threads,            \* the request threads of the server: where each is in log_request
    connected_users,    \* WebSocketHandler.connected_users: user id -> socket id, 0 for no key
    user_rooms,         \* WebSocketHandler.user_rooms: user id -> its room list, if it has one
    sockets,            \* the client sockets: new, open, in handle_disconnect or closed
    joined,             \* the conversation rooms the Socket.IO server has each socket in
    messages,           \* the rows of Message, in the order of their commit
    events,             \* what the last socket or HTTP handler did, in the order it did it
    companies,          \* the rows of Company, by id
    products,           \* the rows of Product, by id
    reply,              \* what the last company or product route answered
    translation,        \* a call of AgentManager.translate_chat_message and what it returned
    active_sessions,    \* VoiceHandler.active_sessions: session id -> user id, 0 for no key
    voice_call,         \* the voice event a thread is in the middle of
    voice_result,       \* what the last voice event did
    research            \* the row of MarketResearch and what the POST route answered

vars == <<agents, agents_initialized, running, request_count, pc, agent_name, frame, response,
          rpc, research_data, tasks, gather_results, aggregate, overlapped, constructed,
          logged, threads, connected_users, user_rooms, sockets, joined, messages, events,
          companies, products, reply, translation,
          active_sessions, voice_call, voice_result, research>>

registryVars == <<agents, agents_initialized, running>>
routeVars == <<pc, agent_name, frame, response>>
researchVars == <<rpc, research_data, tasks, gather_results, aggregate, overlapped>>
socketVars == <<connected_users, user_rooms, sockets, joined, messages, events>>
catalogVars == <<companies, products, reply>>
voiceVars == <<active_sessions, voice_call, voice_result>>
storeVars == <<catalogVars, translation, voiceVars, research>>
otherVars == <<constructed, threads, socketVars, storeVars>>

\* the ids of the rows of the User table, and the socket ids the server hands out
Users == {1, 2}
Sids == 1..MaxSockets
NoUser == 0
NoSocket == 0

\* user_rooms without a key for the user
NoRooms == [has |-> FALSE, rooms |-> {}]

\* a socket id that has not been handed out
NewSocket == [state |-> "new", seen |-> 0, user |-> NoUser]

\* a request thread that is in no invocation
IdleThread == [at |-> "idle", agent |-> "", seen |-> 0]

NoTasks == [i \in 1..3 |-> NoFrame]
NoResults == <<None, None, None>>

TotalRequests == request_count[MarketResearchAgent] + request_count[TranslationAgent]
                     + request_count[BusinessIntelligenceAgent]

\* the rows a table has room for, and the names a company is given
CompanyIds == 1..MaxCompanies
ProductIds == 1..MaxProductRows
CompanyNames == {"Acme", "Bolt"}

\* no row with the id
NoCompany == [exists |-> FALSE, user_id |-> NoUser, name |-> "", is_active |-> FALSE]
NoProduct == [exists |-> FALSE, company_id |-> 0, is_active |-> FALSE]

\* no route has answered
NoReply == [route |-> "", status |-> 0, companies |-> {}, products |-> {}]

\* no call of translate_chat_message is under way
NoChatTranslation ==
    [at |-> "idle", message |-> <<>>, sender_language |-> "", receiver_language |-> "",
     called |-> NoFrame,
     result |-> [f |-> NoFrame, needs_translation |-> FALSE, translated |-> <<>>,
                 error |-> <<>>]]

\* the session ids the clients use; no session id in the event
SessionIds == 1..MaxSessions
NoSession == 0

\* no thread is in the middle of a voice event
NoVoiceCall == [at |-> "idle", sid |-> NoSocket, session_id |-> NoSession]

\* what a voice event did: the event and the socket it came from, the user the
\* socket resolved to, the method of VoiceHandler it called ("" for none), whether
\* the session id was a key of active_sessions when the method was entered, the
\* result of the method or the error of the handler, the outbound calls made, and
\* the user of the session that was read, removed or overwritten (0 for none)
VoiceResult(event, sid, caller, method, session_id, found, success, error, outbound, touched) ==
    [event |-> event, sid |-> sid, caller |-> caller, method |-> method,
     session_id |-> session_id, found |-> found, success |-> success, error |-> error,
     outbound |-> outbound, touched |-> touched]

NoVoiceResult == VoiceResult("", NoSocket, NoUser, "", NoSession, FALSE, FALSE, "", 0, NoUser)

\* no market research was requested: no row of MarketResearch, no answer of the route
NoResearch == [status |-> "", answer |-> 0, ai_result |-> None, raised |-> FALSE]

\* the database and the routes before the first request
InitStore ==
    /\ companies = [c \in CompanyIds |-> NoCompany]
    /\ products = [p \in ProductIds |-> NoProduct]
    /\ reply = NoReply
    /\ translation = NoChatTranslation
    /\ active_sessions = [session_id \in SessionIds |-> NoUser]
    /\ voice_call = NoVoiceCall
    /\ voice_result = NoVoiceResult
    /\ research = NoResearch

\* AgentManager.__init__ / _initialize_agents: the three agents are constructed and
\* then registered, or constructing one raises and none is registered
InitAgents ==
    /\ agents \in {{}, AgentNames}
    /\ agents_initialized = (agents # {})
    /\ constructed = agents_initialized
    /\ running = FALSE
    /\ request_count = [a \in AgentNames |-> 0]
    /\ logged = [a \in AgentNames |-> 0]
    /\ threads = [t \in 1..MaxThreads |-> IdleThread]
    /\ messages = <<>>
    /\ events = <<>>
    /\ InitStore
    /\ pc = "idle"
    /\ agent_name = ""
    /\ frame = NoFrame
    /\ response = None
    /\ rpc = "idle"
    /\ research_data = None
    /\ tasks = NoTasks
    /\ gather_results = NoResults
    /\ aggregate = None
    /\ overlapped = FALSE

\* the process after construction: no socket has connected
Init ==
    /\ InitAgents
    /\ connected_users = [u \in Users |-> NoSocket]
    /\ user_rooms = [u \in Users |-> NoRooms]
    /\ sockets = [sid \in Sids |-> NewSocket]
    /\ joined = [sid \in Sids |-> {}]

\* AgentManager.start_agents: initializes the agents if that failed before, then
\* starts the orchestrator
start_agents ==
    /\ pc = "idle" /\ rpc = "idle"
    /\ IF agents_initialized
       THEN UNCHANGED <<agents, agents_initialized>>
       ELSE \E ok \in BOOLEAN :
               /\ agents' = IF ok THEN AgentNames ELSE agents
               /\ agents_initialized' = ok
    /\ running' = TRUE
    /\ UNCHANGED <<otherVars, request_count, logged, routeVars, researchVars>>

\* a stop that also empties the registry
stop_agents_deregistering ==
    /\ pc = "idle" /\ rpc = "idle"
    /\ running' = FALSE
    /\ agents' = {}
    /\ agents_initialized' = FALSE
    /\ UNCHANGED <<otherVars, request_count, logged, routeVars, researchVars>>

\* AgentManager.stop_agents
stop_agents ==
    /\ pc = "idle" /\ rpc = "idle"
    /\ running' = FALSE
    /\ UNCHANGED <<otherVars, agents, agents_initialized, request_count, logged, routeVars, researchVars>>

\* log_request: self.request_count += 1
Logged(name, f) ==
    IF f.dispatched THEN [request_count EXCEPT ![name] = @ + 1] ELSE request_count

\* where a routed request stands once its frame has moved
Settle(name, f) ==
    /\ frame' = f
    /\ IF f.status = "calling"
       THEN pc' = "calling" /\ response' = None
       ELSE pc' = "returned" /\ response' = route_result(name, f)

\* a caller (a method of AgentManager) awaits orchestrator.route_request
RouteRequest ==
    /\ pc = "idle" /\ rpc = "idle"
    /\ \E name \in RoutedNames, request_data \in Requests :
          LET f == route_request(agents, name, request_data) IN
          /\ f.dispatched => TotalRequests < MaxRequests
          /\ agent_name' = name
          /\ request_count' = Logged(name, f)
          /\ logged' = request_count'
          /\ Settle(name, f)
    /\ UNCHANGED <<otherVars, registryVars, researchVars>>

\* the client call of call_openai_gpt returns or raises, and the handler runs on
CompletionReturns ==
    /\ pc = "calling"
    /\ \E outcome \in OutcomesFor(frame.h) :
          Settle(agent_name, process_request_resume(frame, outcome))
    /\ UNCHANGED <<otherVars, registryVars, request_count, logged, agent_name, researchVars>>

\* the caller takes the envelope
Respond ==
    /\ pc = "returned"
    /\ pc' = "idle"
    /\ agent_name' = ""
    /\ frame' = NoFrame
    /\ response' = None
    /\ UNCHANGED <<otherVars, registryVars, request_count, logged, researchVars>>

\* a sub-analysis has returned or raised
Finished(f) == f.status \in {"returned", "raised"}

\* the event loop's thread is in no task: call_openai_gpt calls the client without
\* awaiting it, so a task that has started keeps the thread until it ends
LoopFree(ts) == \A j \in 1..3 : ts[j].status # "calling"

\* process_market_research_request up to `await asyncio.gather(...)`: the three
\* coroutines are created and handed to gather
ResearchStart ==
    /\ pc = "idle" /\ rpc = "idle"
    /\ TotalRequests < MaxRequests
    /\ \E d \in ResearchInputs : research_data' = d
    /\ rpc' = "gathering"
    /\ tasks' = NoTasks
    /\ UNCHANGED <<otherVars, registryVars, request_count, logged, routeVars, gather_results, aggregate, overlapped>>

\* the event loop starts the task of sub-analysis i (tasks start in the order gather
\* was given them): it runs route_request up to the handler's completion call
TaskStart(i) ==
    /\ rpc = "gathering"
    /\ tasks[i].status = "none"
    /\ \A j \in 1..(i - 1) : tasks[j].status # "none"
    /\ LoopFree(tasks)
    /\ LET f == route_request(agents, MarketResearchAgent, SubRequest(research_data, i)) IN
       /\ tasks' = [tasks EXCEPT ![i] = f]
       /\ request_count' = Logged(MarketResearchAgent, f)
       /\ logged' = request_count'
    /\ overlapped' = (overlapped \/ \E j \in 1..3 : j # i /\ tasks[j].status = "calling")
    /\ UNCHANGED <<otherVars, registryVars, routeVars, rpc, research_data, gather_results, aggregate>>

\* the client call of sub-analysis i returns or raises, and its handler runs on
TaskCompletes(i) ==
    /\ rpc = "gathering"
    /\ tasks[i].status = "calling"
    /\ \E outcome \in ResearchOutcomes :
          tasks' = [tasks EXCEPT ![i] = process_request_resume(tasks[i], outcome)]
    /\ UNCHANGED <<otherVars, registryVars, request_count, logged, routeVars, rpc, research_data,
                   gather_results, aggregate, overlapped>>

\* asyncio.gather returns once every task has ended
GatherReturns ==
    /\ rpc = "gathering"
    /\ \A i \in 1..3 : Finished(tasks[i])
    /\ gather_results' = [i \in 1..3 |-> route_result(MarketResearchAgent, tasks[i])]
    /\ rpc' = "gathered"
    /\ UNCHANGED <<otherVars, registryVars, request_count, logged, routeVars, research_data, tasks,
                   aggregate, overlapped>>

\* process_market_research_request compiles the aggregate and returns it
CompileResults ==
    /\ rpc = "gathered"
    /\ aggregate' = comprehensive_result(research_data, gather_results)
    /\ rpc' = "returned"
    /\ UNCHANGED <<otherVars, registryVars, request_count, logged, routeVars, research_data, tasks,
                   gather_results, overlapped>>

\* the caller takes the aggregate
ResearchRespond ==
    /\ rpc = "returned"
    /\ rpc' = "idle"
    /\ research_data' = None
    /\ tasks' = NoTasks
    /\ gather_results' = NoResults
    /\ aggregate' = None
    /\ overlapped' = FALSE
    /\ UNCHANGED <<otherVars, registryVars, request_count, logged, routeVars>>

Next ==
    \/ start_agents
    \/ stop_agents
    \/ RouteRequest
    \/ CompletionReturns
    \/ Respond
    \/ ResearchStart
    \/ \E i \in 1..3 : TaskStart(i)
    \/ \E i \in 1..3 : TaskCompletes(i)
    \/ GatherReturns
    \/ CompileResults
    \/ ResearchRespond

Spec == Init /\ [][Next]_vars

\* the aggregation alone, on every combination of results gather can return
InitCompile ==
    /\ agents = AgentNames
    /\ agents_initialized = TRUE
    /\ constructed = TRUE
    /\ running = FALSE
    /\ request_count = [a \in AgentNames |-> 0]
    /\ logged = [a \in AgentNames |-> 0]
    /\ threads = [t \in 1..MaxThreads |-> IdleThread]
    /\ connected_users = [u \in Users |-> NoSocket]
    /\ user_rooms = [u \in Users |-> NoRooms]
    /\ sockets = [sid \in Sids |-> NewSocket]
    /\ joined = [sid \in Sids |-> {}]
    /\ messages = <<>>
    /\ events = <<>>
    /\ InitStore
    /\ pc = "idle"
    /\ agent_name = ""
    /\ frame = NoFrame
    /\ response = None
    /\ rpc = "gathered"
    /\ research_data \in ResearchInputs
    /\ tasks = NoTasks
    /\ gather_results \in [1..3 -> GatherResultSamples]
    /\ aggregate = None
    /\ overlapped = FALSE

SpecCompile == InitCompile /\ [][CompileResults]_vars

(***************************************************************************)
(* Invocations on several request threads.  The server runs each request   *)
(* on a thread of its own (async_mode='threading'), each with its own      *)
(* event loop (run_async), and all of them call the same three agents.     *)
(* `self.request_count += 1` reads the attribute, adds one and stores the  *)
(* result; no lock is held, so another thread may run between the read     *)
(* and the store.                                                          *)
(***************************************************************************)
InLogRequest == {t \in 1..MaxThreads : threads[t].at = "read"}

TotalLogged == logged[MarketResearchAgent] + logged[TranslationAgent]
                   + logged[BusinessIntelligenceAgent]

\* the state the threads start from: the agents are registered and idle
InitLog ==
    /\ Init
    /\ agents = AgentNames

\* thread t enters process_request of an agent; log_request reads self.request_count
LogRead(t) ==
    /\ threads[t].at = "idle"
    /\ TotalLogged + Cardinality(InLogRequest) < MaxLogged
    /\ \E a \in agents :
          threads' = [threads EXCEPT ![t] = [at |-> "read", agent |-> a,
                                             seen |-> request_count[a]]]
    /\ UNCHANGED <<registryVars, request_count, logged, routeVars, researchVars, constructed, socketVars, storeVars>>

\* log_request stores the value it read plus one; the handler then runs on
LogWrite(t) ==
    /\ threads[t].at = "read"
    /\ request_count' = [request_count EXCEPT ![threads[t].agent] = threads[t].seen + 1]
    /\ logged' = [logged EXCEPT ![threads[t].agent] = @ + 1]
    /\ threads' = [threads EXCEPT ![t].at = "handling"]
    /\ UNCHANGED <<registryVars, routeVars, researchVars, constructed, socketVars, storeVars>>

\* the invocation of thread t returns its envelope; the thread takes the next request
ThreadReturns(t) ==
    /\ threads[t].at = "handling"
    /\ threads' = [threads EXCEPT ![t] = IdleThread]
    /\ UNCHANGED <<registryVars, request_count, logged, routeVars, researchVars, constructed, socketVars, storeVars>>

NextLog ==
    \/ \E t \in 1..MaxThreads : LogRead(t)
    \/ \E t \in 1..MaxThreads : LogWrite(t)
    \/ \E t \in 1..MaxThreads : ThreadReturns(t)

SpecLog == InitLog /\ [][NextLog]_vars

(***************************************************************************)
(* The chat: WebSocketHandler and the HTTP send route.  A socket id is     *)
(* handed out once: a socket is "new" until it connects, "open" while its  *)
(* client sends events, "closing" while handle_disconnect runs and         *)
(* "closed" for good after it.  The server handles the events of           *)
(* different clients on different threads and the two dicts have no lock.  *)
(* Which sockets are in which conversation room is kept by the Socket.IO   *)
(* server (joined); an emission is recorded with its room.                 *)
(***************************************************************************)
\* User.language of the users of the table
Language(u) == IF u % 2 = 1 THEN "en" ELSE "fr"

\* a receiver_id that is in no row of User
UnknownUser == Cardinality(Users) + 1

\* chat.generate_conversation_id: f"conv_{sorted_ids[0]}_{sorted_ids[1]}"
generate_conversation_id(user1_id, user2_id) ==
    IF user1_id <= user2_id THEN <<"conv", user1_id, user2_id>>
    ELSE <<"conv", user2_id, user1_id>>

\* the conversation ids a client may send: the one of any two users
ClientConversationIds == {generate_conversation_id(a, b) : a, b \in Users}

\* no conversation_id in the event data
NoConversation == <<>>

\* f"conversation_{conversation_id}"
RoomName(conversation_id) == <<"conversation">> \o conversation_id

\* no translated_content on a message
NoTranslation == [lang |-> "", text |-> <<>>]

\* Message(conversation_id=..., sender_id=..., receiver_id=..., content=...)
Message(conversation_id, sender_id, receiver_id, content) ==
    [id |-> 0, conversation_id |-> conversation_id, sender_id |-> sender_id,
     receiver_id |-> receiver_id, content |-> content, translated_content |-> NoTranslation]

NoMessage == Message(NoConversation, NoUser, NoUser, <<>>)

\* a step of a handler that is no emission: "translate" or "commit"
Did(kind, how, message) ==
    [kind |-> kind, event |-> how, room |-> <<>>, to |-> NoSocket, skip |-> NoSocket,
     message |-> message]

\* flask_socketio.emit(event, ...) inside a handler: to the socket of the event
Emit(event, sid, message) ==
    [kind |-> "emit", event |-> event, room |-> <<>>, to |-> sid, skip |-> NoSocket,
     message |-> message]

\* self.socketio.emit(event, ..., room=room_name): to the sockets of the room, but
\* for the one to skip
EmitRoom(event, room_name, skip, message) ==
    [kind |-> "emit", event |-> event, room |-> room_name, to |-> NoSocket, skip |-> skip,
     message |-> message]

\* len(self.connected_users)
ConnectedCount == Cardinality({u \in Users : connected_users[u] # NoSocket})

\* WebSocketHandler._get_current_user_id: the user whose entry holds the socket id
get_current_user_id(sid) ==
    IF \E u \in Users : connected_users[u] = sid
    THEN CHOOSE u \in Users : connected_users[u] = sid
    ELSE NoUser

\* the request translate_message_for_chat builds
chat_translation_request(message, sender_language, receiver_language) ==
    Obj(<<"type", "text", "source_language", "target_language", "context">>,
        << S("text_translation"), Str(message), S(sender_language), S(receiver_language),
           S("business_chat") >>)

\* what translate_chat_message hands back when it made no translation
Untranslated(message) ==
    [f |-> NoFrame, needs_translation |-> FALSE, translated |-> message, error |-> <<>>]

\* TranslationAgent.translate_message_for_chat up to its completion call
translate_message_for_chat(message, sender_language, receiver_language) ==
    IF sender_language = receiver_language THEN NoFrame
    ELSE process_request(TranslationAgent,
             chat_translation_request(message, sender_language, receiver_language))

\* a chat translation that hands back the error text as the translation
translate_message_for_chat_resume_error_text(message, f) ==
    IF f.status # "returned" THEN [Untranslated(message) EXCEPT !.f = f]
    ELSE IF Truthy(Item(f.result, "success"))
    THEN [f |-> f, needs_translation |-> TRUE,
          translated |-> Item(Item(f.result, "data"), "translated_text").atom,
          error |-> <<>>]
    ELSE [f |-> f, needs_translation |-> TRUE, translated |-> Item(f.result, "error").atom,
          error |-> Item(f.result, "error").atom]

\* TranslationAgent.translate_message_for_chat from the envelope of process_request
\* on; run_translation answers an exception with the untranslated message
translate_message_for_chat_resume(message, f) ==
    IF f.status # "returned" THEN [Untranslated(message) EXCEPT !.f = f]
    ELSE IF Truthy(Item(f.result, "success"))
    THEN [f |-> f, needs_translation |-> TRUE,
          translated |-> Item(Item(f.result, "data"), "translated_text").atom,
          error |-> <<>>]
    ELSE [f |-> f, needs_translation |-> TRUE, translated |-> message,
          error |-> Item(f.result, "error").atom]

\* AgentManager.translate_chat_message up to the completion call
translate_chat_message(registered, message, sender_language, receiver_language) ==
    IF TranslationAgent \in registered
    THEN translate_message_for_chat(message, sender_language, receiver_language)
    ELSE NoFrame

\* AgentManager.translate_chat_message from the completion call on
translate_chat_message_resume(registered, message, called, outcome) ==
    IF TranslationAgent \notin registered
    THEN [Untranslated(message) EXCEPT !.error = <<"Translation agent not available">>]
    ELSE IF called.status = "none" THEN Untranslated(message)
    ELSE IF called.status = "calling"
    THEN translate_message_for_chat_resume(message, process_request_resume(called, outcome))
    ELSE translate_message_for_chat_resume(message, called)

\* the contents a client sends
Contents == {<<>>, <<"hello">>}

\* what the completion call of a chat translation may do
ChatOutcomes ==
    {[raises |-> FALSE, content |-> <<"bonjour">>, err |-> <<>>]}
        \cup {[raises |-> TRUE, content |-> <<>>, err |-> e] : e \in ClientErrors}

\* a handler that only answers the socket of the event
Answer(event, sid) ==
    /\ events' = <<Emit(event, sid, NoMessage)>>
    /\ UNCHANGED <<connected_users, user_rooms, sockets, joined, messages, request_count, logged>>

\* handle_connect: the token names user_id (NoUser: no token, a token that does not
\* decode, or a user that is missing or inactive)
handle_connect(sid, user_id) ==
    /\ sockets[sid].state = "new"
    /\ IF user_id = NoUser
       THEN /\ sockets' = [sockets EXCEPT ![sid].state = "closed"]
            /\ events' = <<>>
            /\ UNCHANGED <<connected_users, user_rooms>>
       ELSE /\ connected_users' = [connected_users EXCEPT ![user_id] = sid]
            /\ user_rooms' = [user_rooms EXCEPT ![user_id].has = TRUE]
            /\ sockets' = [sockets EXCEPT ![sid].state = "open", ![sid].user = user_id]
            /\ events' = <<Emit("connected", sid, NoMessage)>>
    /\ UNCHANGED <<joined, messages, request_count, logged>>

\* handle_disconnect up to the first step of `for uid, sid in
\* self.connected_users.items()`: the iterator notes the size of the dict
handle_disconnect(sid) ==
    /\ sockets[sid].state = "open"
    /\ sockets' = [sockets EXCEPT ![sid].state = "closing", ![sid].seen = ConnectedCount]
    /\ UNCHANGED <<connected_users, user_rooms, joined, messages, events, request_count, logged>>

\* handle_disconnect from the next step of the iteration on: the iterator raises
\* RuntimeError when the dict has changed size, which the handler prints; else the
\* entries of the user are deleted
handle_disconnect_resume(sid) ==
    /\ sockets[sid].state = "closing"
    /\ LET user_id == get_current_user_id(sid) IN
       IF ConnectedCount # sockets[sid].seen \/ user_id = NoUser
       THEN UNCHANGED <<connected_users, user_rooms>>
       ELSE /\ connected_users' = [connected_users EXCEPT ![user_id] = NoSocket]
            /\ user_rooms' = [user_rooms EXCEPT ![user_id] = NoRooms]
    /\ sockets' = [sockets EXCEPT ![sid] = [NewSocket EXCEPT !.state = "closed"]]
    /\ joined' = [joined EXCEPT ![sid] = {}]
    /\ events' = <<>>
    /\ UNCHANGED <<messages, request_count, logged>>

\* whether a message of the conversation has the user as sender or receiver
TakesPart(user_id, conversation_id) ==
    \E k \in 1..Len(messages) :
        /\ messages[k].conversation_id = conversation_id
        /\ user_id \in {messages[k].sender_id, messages[k].receiver_id}

\* handle_join_conversation
handle_join_conversation(sid, conversation_id) ==
    /\ sockets[sid].state = "open"
    /\ LET user_id == get_current_user_id(sid) IN
       IF conversation_id = NoConversation \/ user_id = NoUser
              \/ ~TakesPart(user_id, conversation_id)
       THEN Answer("error", sid)
       ELSE /\ user_rooms' = [user_rooms EXCEPT ![user_id] =
                                 [has |-> TRUE, rooms |-> @.rooms \cup {RoomName(conversation_id)}]]
            /\ joined' = [joined EXCEPT ![sid] = @ \cup {RoomName(conversation_id)}]
            /\ events' = <<Emit("joined_conversation", sid, NoMessage)>>
            /\ UNCHANGED <<connected_users, sockets, messages, request_count, logged>>

\* handle_leave_conversation
handle_leave_conversation(sid, conversation_id) ==
    /\ sockets[sid].state = "open"
    /\ LET user_id == get_current_user_id(sid) IN
       IF conversation_id = NoConversation THEN Answer("error", sid)
       ELSE IF user_id = NoUser
       THEN /\ events' = <<>>
            /\ UNCHANGED <<connected_users, user_rooms, sockets, joined, messages, request_count, logged>>
       ELSE /\ user_rooms' = [user_rooms EXCEPT ![user_id].rooms = @ \ {RoomName(conversation_id)}]
            /\ joined' = [joined EXCEPT ![sid] = @ \ {RoomName(conversation_id)}]
            /\ events' = <<Emit("left_conversation", sid, NoMessage)>>
            /\ UNCHANGED <<connected_users, sockets, messages, request_count, logged>>

\* a message whose translated text is attached under the language of its sender
sent_message_keyed_by_sender(draft, translates, translation_result) ==
    [draft EXCEPT !.translated_content =
        IF translates /\ translation_result.needs_translation
        THEN [lang |-> Language(draft.sender_id), text |-> translation_result.translated]
        ELSE NoTranslation]

\* the message handle_send_message persists: the translated text is attached under
\* the language of the receiver when the translation says it was needed
sent_message(draft, translates, translation_result) ==
    [draft EXCEPT !.translated_content =
        IF translates /\ translation_result.needs_translation
        THEN [lang |-> Language(draft.receiver_id), text |-> translation_result.translated]
        ELSE NoTranslation]

\* handle_send_message, with the outcome of the completion call of its translation
handle_send_message(sid, conversation_id, receiver_id, content, outcome) ==
    \E user_id \in {get_current_user_id(sid)} :
    IF user_id = NoUser \/ conversation_id = NoConversation \/ receiver_id = NoUser
           \/ content = <<>>
    THEN Answer("error", sid)
    ELSE \E draft \in {[Message(conversation_id, user_id, receiver_id, content)
                           EXCEPT !.id = Len(messages) + 1]},
            translates \in {(receiver_id \in Users) /\ (Language(user_id) # Language(receiver_id))} :
         \E called \in {IF translates
                        THEN translate_chat_message(agents, content, Language(user_id),
                                                    Language(receiver_id))
                        ELSE NoFrame} :
         \E translation_result \in {translate_chat_message_resume(agents, content, called, outcome)} :
         \E message \in {sent_message(draft, translates, translation_result)} :
            /\ messages' = Append(messages, message)
            /\ events' =
                   (IF translates
                    THEN <<Did("translate",
                               IF called.dispatched THEN TranslationAgent ELSE "unavailable",
                               draft)>>
                    ELSE <<>>)
                   \o << Did("commit", "", message),
                         EmitRoom("new_message", RoomName(conversation_id), NoSocket, message),
                         Emit("message_sent", sid, message) >>
            /\ request_count' = Logged(TranslationAgent, called)
            /\ logged' = request_count'
            /\ UNCHANGED <<connected_users, user_rooms, sockets, joined>>

\* a typing indicator that goes to the whole room, the sender included
handle_typing_to_all(sid, conversation_id) ==
    LET user_id == get_current_user_id(sid) IN
    /\ events' = IF user_id = NoUser \/ conversation_id = NoConversation THEN <<>>
                 ELSE <<EmitRoom("user_typing", RoomName(conversation_id), NoSocket, NoMessage)>>
    /\ UNCHANGED <<connected_users, user_rooms, sockets, joined, messages, request_count, logged>>

\* handle_typing: include_self=False makes the server skip the socket of the event
handle_typing(sid, conversation_id) ==
    LET user_id == get_current_user_id(sid) IN
    /\ events' = IF user_id = NoUser \/ conversation_id = NoConversation THEN <<>>
                 ELSE <<EmitRoom("user_typing", RoomName(conversation_id), sid, NoMessage)>>
    /\ UNCHANGED <<connected_users, user_rooms, sockets, joined, messages, request_count, logged>>

\* chat.send_message, the HTTP route, for the user of the token
send_message(current_user_id, conversation_id, receiver_id, content) ==
    IF receiver_id = NoUser \/ content = <<>>
           \/ conversation_id # generate_conversation_id(current_user_id, receiver_id)
           \/ receiver_id \notin Users
    THEN /\ events' = <<>>
         /\ UNCHANGED <<messages>>
    ELSE /\ LET message == [Message(conversation_id, current_user_id, receiver_id, Strip(content))
                               EXCEPT !.id = Len(messages) + 1]
            IN /\ messages' = Append(messages, message)
               /\ events' = <<Did("commit", "", message)>>

agentVars == <<registryVars, routeVars, researchVars, constructed, threads, storeVars>>

Connect ==
    /\ \E sid \in Sids, user_id \in Users \cup {NoUser} : handle_connect(sid, user_id)
    /\ UNCHANGED agentVars

DisconnectBegins ==
    /\ \E sid \in Sids : handle_disconnect(sid)
    /\ UNCHANGED agentVars

DisconnectEnds ==
    /\ \E sid \in Sids : handle_disconnect_resume(sid)
    /\ UNCHANGED agentVars

JoinConversation ==
    /\ \E sid \in Sids, conversation_id \in ClientConversationIds \cup {NoConversation} :
          handle_join_conversation(sid, conversation_id)
    /\ UNCHANGED agentVars

LeaveConversation ==
    /\ \E sid \in Sids, conversation_id \in ClientConversationIds \cup {NoConversation} :
          handle_leave_conversation(sid, conversation_id)
    /\ UNCHANGED agentVars

SendMessage ==
    /\ \E sid \in Sids, conversation_id \in ClientConversationIds \cup {NoConversation},
          receiver_id \in Users \cup {NoUser}, content \in Contents,
          outcome \in ChatOutcomes :
          /\ sockets[sid].state = "open"
          /\ Len(messages) < MaxMessages
          /\ handle_send_message(sid, conversation_id, receiver_id, content, outcome)
    /\ UNCHANGED agentVars

Typing ==
    /\ \E sid \in Sids, conversation_id \in ClientConversationIds \cup {NoConversation} :
          /\ sockets[sid].state = "open"
          /\ handle_typing(sid, conversation_id)
    /\ UNCHANGED agentVars

HttpSendMessage ==
    /\ \E current_user_id \in Users, conversation_id \in ClientConversationIds,
          receiver_id \in Users \cup {NoUser, UnknownUser}, content \in Contents :
          /\ Len(messages) < MaxMessages
          /\ send_message(current_user_id, conversation_id, receiver_id, content)
    /\ UNCHANGED <<agentVars, connected_users, user_rooms, sockets, joined, request_count, logged>>

\* connections come and go
NextSocket ==
    \/ Connect
    \/ DisconnectBegins
    \/ DisconnectEnds

SpecSocket == Init /\ [][NextSocket]_vars

\* the entry of connected_users for user u once the sockets have connected in the
\* order of their ids, socket sid with a token of user who[sid]: the last one stays
LastSocket(who, u) ==
    IF \E sid \in Sids : who[sid] = u
    THEN CHOOSE sid \in Sids : who[sid] = u /\ \A other \in Sids : who[other] = u => other <= sid
    ELSE NoSocket

\* the chat once every socket has connected: no message has been sent yet.  Which
\* socket got which id does not matter, so the users are taken in their order.
InitChat ==
    /\ InitAgents
    /\ \E who \in [Sids -> Users] :
          /\ \A sid \in Sids, other \in Sids : sid <= other => who[sid] <= who[other]
          /\ connected_users = [u \in Users |-> LastSocket(who, u)]
          /\ user_rooms = [u \in Users |->
                              [NoRooms EXCEPT !.has = (LastSocket(who, u) # NoSocket)]]
          /\ sockets = [sid \in Sids |-> [NewSocket EXCEPT !.state = "open", !.user = who[sid]]]
    /\ joined = [sid \in Sids |-> {}]

\* the clients send events and post messages
NextChat ==
    \/ JoinConversation
    \/ LeaveConversation
    \/ SendMessage
    \/ Typing
    \/ HttpSendMessage

SpecChat == InitChat /\ [][NextChat]_vars

(***************************************************************************)
(* AgentManager.translate_chat_message as a caller drives it: on any       *)
(* message and any two language codes.                                     *)
(***************************************************************************)
ChatTexts == {<<>>, <<"hello">>, <<"hello", " ", "world">>}
ChatLanguages == {"en", "fr", "xx", ""}

\* the call, up to the completion call of the translation or to its return
TranslateChatMessage ==
    /\ translation.at = "idle"
    /\ \E message \in ChatTexts, sender_language \in ChatLanguages,
          receiver_language \in ChatLanguages :
       \E called \in {translate_chat_message(agents, message, sender_language,
                                             receiver_language)} :
          /\ called.dispatched => TotalRequests < MaxRequests
          /\ translation' =
                [at |-> IF called.status = "calling" THEN "calling" ELSE "returned",
                 message |-> message, sender_language |-> sender_language,
                 receiver_language |-> receiver_language, called |-> called,
                 result |-> IF called.status = "calling" THEN NoChatTranslation.result
                            ELSE translate_chat_message_resume(agents, message, called,
                                                               CHOOSE o \in ChatOutcomes : TRUE)]
          /\ request_count' = Logged(TranslationAgent, called)
          /\ logged' = request_count'
    /\ UNCHANGED <<registryVars, routeVars, researchVars, constructed, threads, socketVars,
                   catalogVars, voiceVars, research>>

\* the completion call returns or raises, and the call returns to its caller
TranslateChatReturns ==
    /\ translation.at = "calling"
    /\ \E outcome \in PlainOutcomes :
          translation' =
              [translation EXCEPT
                  !.at = "returned",
                  !.result = translate_chat_message_resume(agents, translation.message,
                                                           translation.called, outcome)]
    /\ UNCHANGED <<registryVars, request_count, logged, routeVars, researchVars, constructed,
                   threads, socketVars, catalogVars, voiceVars, research>>

\* the caller has taken the result
TranslateChatDone ==
    /\ translation.at = "returned"
    /\ translation' = NoChatTranslation
    /\ UNCHANGED <<registryVars, request_count, logged, routeVars, researchVars, constructed,
                   threads, socketVars, catalogVars, voiceVars, research>>

NextTranslateChat ==
    \/ TranslateChatMessage
    \/ TranslateChatReturns
    \/ TranslateChatDone

SpecTranslateChat == Init /\ [][NextTranslateChat]_vars

(***************************************************************************)
(* Voice sessions.  The handlers run on threads: the one whose steps are   *)
(* taken apart is in voice_call, and the events of the other threads are   *)
(* served whole in between.  The config of a session leaves translation    *)
(* off, its default, so a processed audio makes three outbound calls:      *)
(* transcription, completion, speech.                                      *)
(***************************************************************************)
\* the audio data of an event: none, no base64, base64
AudioData == {"", "!", "UklGRg=="}

\* what the transcription call hands back: a text, or None when it failed
Transcriptions == {"hello", "None"}

\* what is left of the handler when the event is refused before VoiceHandler is called
VoiceRefused(event, sid, caller, session_id, error) ==
    /\ voice_result' = VoiceResult(event, sid, caller, "", session_id, FALSE, FALSE, error, 0,
                                   NoUser)
    /\ UNCHANGED <<active_sessions, voice_call>>

\* a session id generated for a start event that has none: one that is no key yet
FreshSessions == {session_id \in SessionIds : active_sessions[session_id] = NoUser}

\* handle_start_voice_session, with VoiceHandler.start_voice_session
handle_start_voice_session(sid, session_id) ==
    \E user_id \in {get_current_user_id(sid)} :
    IF user_id = NoUser
    THEN VoiceRefused("start_voice_session", sid, user_id, session_id, "Authentication required")
    ELSE \E id \in (IF session_id = NoSession THEN FreshSessions ELSE {session_id}) :
         /\ active_sessions' = [active_sessions EXCEPT ![id] = user_id]
         /\ voice_result' = VoiceResult("start_voice_session", sid, user_id,
                                        "start_voice_session", id,
                                        active_sessions[id] # NoUser, TRUE, "", 0,
                                        active_sessions[id])
         /\ UNCHANGED voice_call

\* an audio handler that looks the session up without testing for its key
handle_voice_audio_data_unchecked(sid, session_id, audio_data) ==
    \E user_id \in {get_current_user_id(sid)} :
    IF user_id = NoUser
    THEN VoiceRefused("voice_audio_data", sid, user_id, session_id, "Authentication required")
    ELSE IF session_id = NoSession \/ audio_data = ""
    THEN VoiceRefused("voice_audio_data", sid, user_id, session_id,
                      "session_id and audio_data are required")
    ELSE IF audio_data = "!"
    THEN VoiceRefused("voice_audio_data", sid, user_id, session_id, "Invalid audio data format")
    ELSE /\ voice_call.at = "idle"
         /\ voice_call' = [at |-> "audio_checked", sid |-> sid, session_id |-> session_id]
         /\ voice_result' = VoiceResult("voice_audio_data", sid, user_id, "process_audio_input",
                                        session_id, active_sessions[session_id] # NoUser,
                                        FALSE, "", 0, NoUser)
         /\ UNCHANGED active_sessions

\* handle_voice_audio_data, with VoiceHandler.process_audio_input up to
\* `if session_id not in self.active_sessions`
handle_voice_audio_data(sid, session_id, audio_data) ==
    \E user_id \in {get_current_user_id(sid)} :
    IF user_id = NoUser
    THEN VoiceRefused("voice_audio_data", sid, user_id, session_id, "Authentication required")
    ELSE IF session_id = NoSession \/ audio_data = ""
    THEN VoiceRefused("voice_audio_data", sid, user_id, session_id,
                      "session_id and audio_data are required")
    ELSE IF audio_data = "!"
    THEN VoiceRefused("voice_audio_data", sid, user_id, session_id, "Invalid audio data format")
    ELSE IF active_sessions[session_id] = NoUser
    THEN /\ voice_result' = VoiceResult("voice_audio_data", sid, user_id, "process_audio_input",
                                        session_id, FALSE, FALSE, "Session not found", 0, NoUser)
         /\ UNCHANGED <<active_sessions, voice_call>>
    ELSE /\ voice_call.at = "idle"
         /\ voice_call' = [at |-> "audio_checked", sid |-> sid, session_id |-> session_id]
         /\ voice_result' = VoiceResult("voice_audio_data", sid, user_id, "process_audio_input",
                                        session_id, TRUE, FALSE, "", 0, NoUser)
         /\ UNCHANGED active_sessions

\* process_audio_input at `session = self.active_sessions[session_id]`: a KeyError
\* when the key has gone since the test, which the method answers as a failure
process_audio_input_lookup ==
    /\ voice_call.at = "audio_checked"
    /\ \E user_id \in {get_current_user_id(voice_call.sid)},
          owner \in {active_sessions[voice_call.session_id]} :
          IF owner = NoUser
          THEN /\ voice_call' = NoVoiceCall
               /\ voice_result' = VoiceResult("voice_audio_data", voice_call.sid, user_id,
                                              "process_audio_input", voice_call.session_id,
                                              TRUE, FALSE, "Failed to process audio", 0, NoUser)
          ELSE /\ voice_call' = [voice_call EXCEPT !.at = "audio_processing"]
               /\ voice_result' = VoiceResult("voice_audio_data", voice_call.sid, user_id,
                                              "process_audio_input", voice_call.session_id,
                                              TRUE, FALSE, "", 0, owner)
    /\ UNCHANGED active_sessions

\* process_audio_input from the transcription on, and the answer of the handler
process_audio_input_resume(transcription) ==
    /\ voice_call.at = "audio_processing"
    /\ voice_call' = NoVoiceCall
    /\ \E user_id \in {get_current_user_id(voice_call.sid)} :
          voice_result' =
              IF transcription = "None"
              THEN VoiceResult("voice_audio_data", voice_call.sid, user_id,
                               "process_audio_input", voice_call.session_id, TRUE, FALSE,
                               "Failed to transcribe audio", 1, NoUser)
              ELSE VoiceResult("voice_audio_data", voice_call.sid, user_id,
                               "process_audio_input", voice_call.session_id, TRUE, TRUE, "",
                               3, NoUser)
    /\ UNCHANGED active_sessions

\* handle_end_voice_session, with VoiceHandler.end_voice_session up to
\* `if session_id in self.active_sessions`: the handler does not ask who the socket is
handle_end_voice_session(sid, session_id) ==
    \E user_id \in {get_current_user_id(sid)} :
    IF session_id = NoSession
    THEN VoiceRefused("end_voice_session", sid, user_id, session_id, "session_id is required")
    ELSE IF active_sessions[session_id] = NoUser
    THEN /\ voice_result' = VoiceResult("end_voice_session", sid, user_id, "end_voice_session",
                                        session_id, FALSE, FALSE, "Session not found", 0, NoUser)
         /\ UNCHANGED <<active_sessions, voice_call>>
    ELSE /\ voice_call.at = "idle"
         /\ voice_call' = [at |-> "end_checked", sid |-> sid, session_id |-> session_id]
         /\ voice_result' = VoiceResult("end_voice_session", sid, user_id, "end_voice_session",
                                        session_id, TRUE, FALSE, "", 0, NoUser)
         /\ UNCHANGED active_sessions

\* end_voice_session at `del self.active_sessions[session_id]`: a KeyError when the
\* key has gone since the test
end_voice_session_delete ==
    /\ voice_call.at = "end_checked"
    /\ voice_call' = NoVoiceCall
    /\ \E user_id \in {get_current_user_id(voice_call.sid)},
          owner \in {active_sessions[voice_call.session_id]} :
          /\ voice_result' = VoiceResult("end_voice_session", voice_call.sid, user_id,
                                         "end_voice_session", voice_call.session_id, TRUE,
                                         owner # NoUser,
                                         IF owner = NoUser THEN "Failed to end session" ELSE "",
                                         0, owner)
          /\ active_sessions' = [active_sessions EXCEPT ![voice_call.session_id] = NoUser]

\* handle_end_voice_session served whole by another thread
handle_end_voice_session_whole(sid, session_id) ==
    \E user_id \in {get_current_user_id(sid)}, owner \in {active_sessions[session_id]} :
       /\ owner # NoUser
       /\ voice_result' = VoiceResult("end_voice_session", sid, user_id, "end_voice_session",
                                      session_id, TRUE, TRUE, "", 0, owner)
       /\ active_sessions' = [active_sessions EXCEPT ![session_id] = NoUser]
       /\ UNCHANGED voice_call

\* everything but the sessions
voiceFrame == <<registryVars, request_count, logged, routeVars, researchVars, constructed,
                threads, socketVars, catalogVars, translation, research>>

StartVoiceSession ==
    /\ \E sid \in Sids, session_id \in SessionIds \cup {NoSession} :
          handle_start_voice_session(sid, session_id)
    /\ UNCHANGED voiceFrame

VoiceAudioData ==
    /\ \E sid \in Sids, session_id \in SessionIds \cup {NoSession}, audio_data \in AudioData :
          handle_voice_audio_data(sid, session_id, audio_data)
    /\ UNCHANGED voiceFrame

AudioLooksUp ==
    /\ process_audio_input_lookup
    /\ UNCHANGED voiceFrame

AudioCompletes ==
    /\ \E transcription \in Transcriptions : process_audio_input_resume(transcription)
    /\ UNCHANGED voiceFrame

EndVoiceSession ==
    /\ \E sid \in Sids, session_id \in SessionIds \cup {NoSession} :
          handle_end_voice_session(sid, session_id)
    /\ UNCHANGED voiceFrame

EndDeletes ==
    /\ end_voice_session_delete
    /\ UNCHANGED voiceFrame

EndVoiceSessionWhole ==
    /\ voice_call.at # "idle"
    /\ \E sid \in Sids, session_id \in SessionIds :
          handle_end_voice_session_whole(sid, session_id)
    /\ UNCHANGED voiceFrame

NextVoice ==
    \/ StartVoiceSession
    \/ VoiceAudioData
    \/ AudioLooksUp
    \/ AudioCompletes
    \/ EndVoiceSession
    \/ EndDeletes
    \/ EndVoiceSessionWhole

\* the sockets have connected and the agents are registered
InitVoice == InitChat /\ agents = AgentNames

SpecVoice == InitVoice /\ [][NextVoice]_vars

(***************************************************************************)
(* The company and product routes.  A row keeps the columns the routes      *)
(* select on: owner, name, company, is_active.  The filters a listing or a  *)
(* search takes from its request (country, category, text, price) are the   *)
(* set `matching` of the ids of the rows that satisfy them.                 *)
(***************************************************************************)
\* the row Company(...) / Product(...) adds: the column default of is_active
NewCompany(user_id, name) ==
    [exists |-> TRUE, user_id |-> user_id, name |-> name, is_active |-> TRUE]

NewProduct(company_id) == [exists |-> TRUE, company_id |-> company_id, is_active |-> TRUE]

\* the id the database gives the next row
NextCompanyId == Cardinality({c \in CompanyIds : companies[c].exists}) + 1
NextProductId == Cardinality({p \in ProductIds : products[p].exists}) + 1

\* Company.query.filter_by(is_active=True)
ActiveCompanies == {c \in CompanyIds : companies[c].exists /\ companies[c].is_active}

\* query(Product).join(Company).filter(Product.is_active, Company.is_active)
ActiveProducts ==
    {p \in ProductIds : /\ products[p].exists /\ products[p].is_active
                        /\ products[p].company_id \in ActiveCompanies}

\* Company.query.filter_by(id=company_id, user_id=current_user_id).first()
OwnCompany(company_id, current_user_id) ==
    /\ company_id \in CompanyIds
    /\ companies[company_id].exists
    /\ companies[company_id].user_id = current_user_id

\* query(Product).join(Company).filter(Product.id == product_id,
\*                                     Company.user_id == current_user_id).first()
OwnProduct(product_id, current_user_id) ==
    /\ products[product_id].exists
    /\ OwnCompany(products[product_id].company_id, current_user_id)

\* Company.to_dict(include_products=True): the products listed inside a company
to_dict_products(company_id) ==
    {p \in ProductIds : /\ products[p].exists /\ products[p].is_active
                        /\ products[p].company_id = company_id}

\* jsonify(...), status
Replies(route, status, cs, ps) ==
    reply' = [route |-> route, status |-> status, companies |-> cs, products |-> ps]

\* get_companies
get_companies(matching) ==
    /\ Replies("get_companies", 200, ActiveCompanies \cap matching, {})
    /\ UNCHANGED <<companies, products>>

\* create_company
create_company(current_user_id, name) ==
    IF current_user_id \notin Users
    THEN Replies("create_company", 404, {}, {}) /\ UNCHANGED <<companies, products>>
    ELSE IF name = ""
    THEN Replies("create_company", 400, {}, {}) /\ UNCHANGED <<companies, products>>
    ELSE IF \E c \in CompanyIds : /\ companies[c].exists
                                  /\ companies[c].user_id = current_user_id
                                  /\ companies[c].name = name
    THEN Replies("create_company", 409, {}, {}) /\ UNCHANGED <<companies, products>>
    ELSE /\ companies' = [companies EXCEPT ![NextCompanyId] = NewCompany(current_user_id, name)]
         /\ Replies("create_company", 201, {NextCompanyId}, {})
         /\ UNCHANGED products

\* get_company
get_company(company_id) ==
    /\ IF company_id \in ActiveCompanies
       THEN Replies("get_company", 200, {company_id}, to_dict_products(company_id))
       ELSE Replies("get_company", 404, {}, {})
    /\ UNCHANGED <<companies, products>>

\* update_company: name is "" when the request does not rename the company
update_company(current_user_id, company_id, name) ==
    IF ~OwnCompany(company_id, current_user_id)
    THEN Replies("update_company", 404, {}, {}) /\ UNCHANGED <<companies, products>>
    ELSE /\ companies' = IF name = "" THEN companies
                         ELSE [companies EXCEPT ![company_id].name = name]
         /\ Replies("update_company", 200, {company_id}, {})
         /\ UNCHANGED products

\* delete_company
delete_company(current_user_id, company_id) ==
    IF ~OwnCompany(company_id, current_user_id)
    THEN Replies("delete_company", 404, {}, {}) /\ UNCHANGED <<companies, products>>
    ELSE /\ companies' = [companies EXCEPT ![company_id].is_active = FALSE]
         /\ Replies("delete_company", 200, {}, {})
         /\ UNCHANGED products

\* get_my_companies
get_my_companies(current_user_id) ==
    /\ \E mine \in {{c \in ActiveCompanies : companies[c].user_id = current_user_id}} :
          Replies("get_my_companies", 200, mine,
                  {p \in ProductIds : \E c \in mine : p \in to_dict_products(c)})
    /\ UNCHANGED <<companies, products>>

\* get_products
get_products(matching) ==
    /\ Replies("get_products", 200, {}, ActiveProducts \cap matching)
    /\ UNCHANGED <<companies, products>>

\* create_product: company_id is 0 when the request has none
create_product(current_user_id, company_id) ==
    IF company_id = 0
    THEN Replies("create_product", 400, {}, {}) /\ UNCHANGED <<companies, products>>
    ELSE IF ~(OwnCompany(company_id, current_user_id) /\ companies[company_id].is_active)
    THEN Replies("create_product", 404, {}, {}) /\ UNCHANGED <<companies, products>>
    ELSE /\ products' = [products EXCEPT ![NextProductId] = NewProduct(company_id)]
         /\ Replies("create_product", 201, {}, {NextProductId})
         /\ UNCHANGED companies

\* a lookup by id that leaves out the test of is_active
get_product_any(product_id) ==
    /\ IF products[product_id].exists
       THEN Replies("get_product", 200, {}, {product_id})
       ELSE Replies("get_product", 404, {}, {})
    /\ UNCHANGED <<companies, products>>

\* get_product
get_product(product_id) ==
    /\ IF product_id \in ActiveProducts
       THEN Replies("get_product", 200, {}, {product_id})
       ELSE Replies("get_product", 404, {}, {})
    /\ UNCHANGED <<companies, products>>

\* update_product: the columns it sets are none of the columns kept here
update_product(current_user_id, product_id) ==
    /\ IF OwnProduct(product_id, current_user_id) /\ products[product_id].is_active
       THEN Replies("update_product", 200, {}, {product_id})
       ELSE Replies("update_product", 404, {}, {})
    /\ UNCHANGED <<companies, products>>

\* delete_product
delete_product(current_user_id, product_id) ==
    IF ~OwnProduct(product_id, current_user_id)
    THEN Replies("delete_product", 404, {}, {}) /\ UNCHANGED <<companies, products>>
    ELSE /\ products' = [products EXCEPT ![product_id].is_active = FALSE]
         /\ Replies("delete_product", 200, {}, {})
         /\ UNCHANGED companies

\* get_my_products
get_my_products(current_user_id) ==
    /\ Replies("get_my_products", 200, {},
               {p \in ActiveProducts : companies[products[p].company_id].user_id = current_user_id})
    /\ UNCHANGED <<companies, products>>

\* search_products
search_products(matching) ==
    /\ Replies("search_products", 200, {}, ActiveProducts \cap matching)
    /\ UNCHANGED <<companies, products>>

\* everything but the tables and the answer of the route
catalogFrame == <<registryVars, request_count, logged, routeVars, researchVars, constructed,
                  threads, socketVars, translation, voiceVars, research>>

GetCompanies ==
    /\ \E matching \in SUBSET CompanyIds : get_companies(matching)
    /\ UNCHANGED catalogFrame

CreateCompany ==
    /\ NextCompanyId \in CompanyIds
    /\ \E current_user_id \in Users \cup {UnknownUser}, name \in CompanyNames \cup {""} :
          create_company(current_user_id, name)
    /\ UNCHANGED catalogFrame

GetCompany ==
    /\ \E company_id \in CompanyIds : get_company(company_id)
    /\ UNCHANGED catalogFrame

UpdateCompany ==
    /\ \E current_user_id \in Users, company_id \in CompanyIds, name \in CompanyNames \cup {""} :
          update_company(current_user_id, company_id, name)
    /\ UNCHANGED catalogFrame

DeleteCompany ==
    /\ \E current_user_id \in Users, company_id \in CompanyIds :
          delete_company(current_user_id, company_id)
    /\ UNCHANGED catalogFrame

GetMyCompanies ==
    /\ \E current_user_id \in Users : get_my_companies(current_user_id)
    /\ UNCHANGED catalogFrame

GetProducts ==
    /\ \E matching \in SUBSET ProductIds : get_products(matching)
    /\ UNCHANGED catalogFrame

CreateProduct ==
    /\ NextProductId \in ProductIds
    /\ \E current_user_id \in Users, company_id \in CompanyIds \cup {0} :
          create_product(current_user_id, company_id)
    /\ UNCHANGED catalogFrame

GetProduct ==
    /\ \E product_id \in ProductIds : get_product(product_id)
    /\ UNCHANGED catalogFrame

UpdateProduct ==
    /\ \E current_user_id \in Users, product_id \in ProductIds :
          update_product(current_user_id, product_id)
    /\ UNCHANGED catalogFrame

DeleteProduct ==
    /\ \E current_user_id \in Users, product_id \in ProductIds :
          delete_product(current_user_id, product_id)
    /\ UNCHANGED catalogFrame

GetMyProducts ==
    /\ \E current_user_id \in Users : get_my_products(current_user_id)
    /\ UNCHANGED catalogFrame

SearchProducts ==
    /\ \E matching \in SUBSET ProductIds : search_products(matching)
    /\ UNCHANGED catalogFrame

NextCatalog ==
    \/ GetCompanies
    \/ CreateCompany
    \/ GetCompany
    \/ UpdateCompany
    \/ DeleteCompany
    \/ GetMyCompanies
    \/ GetProducts
    \/ CreateProduct
    \/ GetProduct
    \/ UpdateProduct
    \/ DeleteProduct
    \/ GetMyProducts
    \/ SearchProducts

\* the routes are served once the agents are registered
InitCatalog == Init /\ agents = AgentNames

SpecCatalog == InitCatalog /\ [][NextCatalog]_vars

(***************************************************************************)
(* Properties.                                                             *)
(***************************************************************************)
\* the invocations of process_request in flight or just ended
Frames == {frame} \cup {tasks[i] : i \in 1..3}

\* the invocations that reached a capability handler
Handled == {f \in Frames : f.dispatched /\ f.h # ""}

Range(s) == {s[k] : k \in DOMAIN s}

\* the field list each handler passes to validate_request
RequiredFields(h) ==
    CASE h = "market_analysis" -> <<"product_name", "target_country">>
      [] h = "contact_discovery" -> <<"country", "industry">>
      [] h = "trend_analysis" -> <<"country">>
      [] h = "opportunity_matching" -> <<"products">>
      [] h = "text_translation" -> <<"text", "target_language">>
      [] h = "batch_translation" -> <<"texts", "target_language">>
      [] h = "cultural_context" -> <<"country">>
      [] h = "business_etiquette" -> <<"country", "situation">>
      [] h = "language_detection" -> <<"text">>
      [] h = "user_analytics" -> <<"user_id">>
      [] h = "product_insights" -> <<"products">>
      [] h = "market_recommendations" -> <<"user_profile">>
      [] h = "competitive_analysis" -> <<"industry", "target_market">>
      [] h = "growth_opportunities" -> <<"user_data">>

\* the first required field the request of f lacks or holds falsy ("" if none)
Missing(f) == MissingField(f.request_data, RequiredFields(f.h))

Success(envelope) == Get(envelope, "success", None)
ErrorText(envelope) == Get(envelope, "error", None).atom

\* C1: in every capability handler, a request in which a required field is absent
\* or holds an empty/falsy value is answered at once with an envelope whose
\* success is false, and no outbound completion call is made for it.
C1_RejectedWithoutCall ==
    \A f \in Handled :
        Missing(f) # "" =>
            /\ f.status = "returned"
            /\ Success(f.result) = Bool(FALSE)
            /\ f.outbound = 0
            /\ f.responses = <<>>

\* a user_analytics request whose user_id is 0 (present but falsy) has been rejected
C1_Witness ==
    /\ pc = "returned"
    /\ frame.h = "user_analytics"
    /\ Get(frame.request_data, "user_id", None) = Num(0)
    /\ Success(response) = Bool(FALSE)
    /\ frame.outbound = 0

\* the invocations a handler rejected for a missing required field
RejectedFrames == {f \in Handled : Missing(f) # "" /\ f.status = "returned"}

\* C2 as stated: the error message of a rejection names the missing field.
C2_MessageNamesField ==
    \A f \in RejectedFrames : Missing(f) \in Range(ErrorText(f.result))

\* the request type with spaces for underscores, as the handlers' messages word it
CapabilityWords(h) ==
    CASE h = "market_analysis" -> <<"market", " ", "analysis">>
      [] h = "contact_discovery" -> <<"contact", " ", "discovery">>
      [] h = "trend_analysis" -> <<"trend", " ", "analysis">>
      [] h = "opportunity_matching" -> <<"opportunity", " ", "matching">>
      [] h = "text_translation" -> <<"text", " ", "translation">>
      [] h = "batch_translation" -> <<"batch", " ", "translation">>
      [] h = "cultural_context" -> <<"cultural", " ", "context">>
      [] h = "business_etiquette" -> <<"business", " ", "etiquette">>
      [] h = "language_detection" -> <<"language", " ", "detection">>
      [] h = "user_analytics" -> <<"user", " ", "analytics">>
      [] h = "product_insights" -> <<"product", " ", "insights">>
      [] h = "market_recommendations" -> <<"market", " ", "recommendations">>
      [] h = "competitive_analysis" -> <<"competitive", " ", "analysis">>
      [] h = "growth_opportunities" -> <<"growth", " ", "opportunities">>

\* C2, amended: the error message of a rejection is the handler's fixed text
\* "Missing required fields for <capability>", the same whichever field is missing;
\* the missing field is named only in the line validate_request prints.
C2_MessageNamesCapability ==
    \A f \in RejectedFrames :
        /\ ErrorText(f.result)
             = <<"Missing", " ", "required", " ", "fields", " ", "for", " ">>
                   \o CapabilityWords(f.h)
        /\ f.printed = <<Missing(f)>>

\* a market_analysis request without target_country has been rejected with the
\* message of market analysis, and the field was printed
C2_Witness ==
    /\ pc = "returned"
    /\ frame.h = "market_analysis"
    /\ Missing(frame) = "target_country"
    /\ "target_country" \notin Range(ErrorText(response))
    /\ "analysis" \in Range(ErrorText(response))
    /\ frame.printed = <<"target_country">>

\* whether the segments e occur in the text s, in order and adjacent
Carries(s, e) == \E i \in 1..(Len(s) - Len(e) + 1) : SubSeq(s, i, i + Len(e) - 1) = e

\* C3 as stated: an invocation whose validation passed and whose outbound
\* completion call failed ends in an envelope with success false whose error text
\* carries the failure's description, never in a success envelope.
C3_FailureGivesErrorEnvelope ==
    \A f \in Handled :
        \A k \in 1..Len(f.failures) :
            (Finished(f) /\ f.failures[k]) =>
                /\ Success(route_result(f.agent, f)) = Bool(FALSE)
                /\ \E e \in ClientErrors : Carries(ErrorText(route_result(f.agent, f)), e)

\* the handlers that place one parsed object under one key of their envelope
SingleSlotHandlers ==
    {"market_analysis", "trend_analysis", "cultural_context", "business_etiquette",
     "user_analytics", "market_recommendations", "competitive_analysis",
     "growth_opportunities"}

\* the key of the envelope's data under which a handler places what it parsed
ResultSlot(h) ==
    CASE h = "market_analysis" -> "market_analysis"
      [] h = "contact_discovery" -> "contacts"
      [] h = "trend_analysis" -> "trends_analysis"
      [] h = "cultural_context" -> "cultural_context"
      [] h = "business_etiquette" -> "business_etiquette"
      [] h = "user_analytics" -> "user_analytics"
      [] h = "market_recommendations" -> "market_recommendations"
      [] h = "competitive_analysis" -> "competitive_analysis"
      [] h = "growth_opportunities" -> "growth_opportunities"
      [] OTHER -> ""

\* the free-text field of a handler's fallback object
TextField(h) ==
    CASE h = "market_analysis" -> "analysis_text"
      [] h = "trend_analysis" -> "trends_text"
      [] h = "cultural_context" -> "cultural_advice"
      [] h = "business_etiquette" -> "etiquette_advice"
      [] h = "user_analytics" -> "analysis_text"
      [] h = "product_insights" -> "analysis_text"
      [] h = "market_recommendations" -> "recommendations_text"
      [] h = "competitive_analysis" -> "analysis_text"
      [] h = "growth_opportunities" -> "growth_analysis"
      [] OTHER -> ""

\* the fallback object of the handler of f for the completion text raw
FallbackOf(f, raw) ==
    CASE f.h = "market_analysis" -> analyze_market_fallback(raw)
      [] f.h = "trend_analysis" -> analyze_trends_fallback(raw)
      [] f.h = "cultural_context" ->
            cultural_context_fallback(raw, Get(f.request_data, "country", None))
      [] f.h = "business_etiquette" -> business_etiquette_fallback(raw)
      [] f.h = "user_analytics" -> analyze_user_performance_fallback(raw)
      [] f.h = "market_recommendations" -> generate_market_recommendations_fallback(raw)
      [] f.h = "competitive_analysis" -> analyze_competition_fallback(raw)
      [] f.h = "growth_opportunities" -> identify_growth_opportunities_fallback(raw)

\* what the envelope of f holds under the handler's key
SlotValue(f) == Get(Get(f.result, "data", None), ResultSlot(f.h), None)

\* the parsed results of f: the value under the handler's key once it has
\* returned, or, for the handlers that loop over products, the entries collected
ParsedResults(f) ==
    IF f.h \in {"product_insights", "opportunity_matching"} THEN Range(f.acc)
    ELSE IF f.status = "returned" THEN {SlotValue(f)}
    ELSE {}

\* an object one of whose fields is exactly the text raw
HoldsText(o, raw) == IsDict(o) /\ \E k \in 1..Len(o.items) : o.items[k] = Str(raw)

\* the product the k-th completion call of f was made for
ProductOf(f, k) == ProductAt(Get(f.request_data, "products", None), k)

\* the sample contacts _discover_contacts falls back to for the request of f
MockContactsOf(f) ==
    generate_mock_contacts(Get(f.request_data, "country", None),
                           Get(f.request_data, "industry", None),
                           Get(f.request_data, "contact_type", S("buyer")))

\* C4 as stated: for every handler that parses its completion as JSON and every
\* completion text that is not valid JSON, the parsed result is an object holding
\* the raw completion text verbatim in a field.
C4_FallbackAlwaysKeepsText ==
    \A f \in Handled :
        \A k \in 1..Len(f.responses) :
            (f.h \in JsonHandlers /\ f.status = "returned" /\ ~Loads(f.responses[k]).ok) =>
                \E o \in ParsedResults(f) : HoldsText(o, f.responses[k])

\* C4, amended: for a completion text that is not valid JSON, market_analysis,
\* trend_analysis, cultural_context, business_etiquette, user_analytics,
\* product_insights, market_recommendations, competitive_analysis and
\* growth_opportunities use their fallback object, which holds the raw text
\* verbatim in its free-text field; contact_discovery falls back to sample contacts
\* and opportunity_matching to a fixed opportunity, and neither holds the raw text.
C4_FallbackKeepsText ==
    \A f \in Handled :
        \A k \in 1..Len(f.responses) :
            LET raw == f.responses[k] IN
            (f.h \in JsonHandlers /\ ~Loads(raw).ok) =>
                CASE f.h \in SingleSlotHandlers ->
                        /\ f.status = "returned"
                        /\ Success(f.result) = Bool(TRUE)
                        /\ SlotValue(f) = FallbackOf(f, raw)
                        /\ Get(SlotValue(f), TextField(f.h), None) = Str(raw)
                  [] f.h = "product_insights" ->
                        \E o \in Range(f.acc) :
                            /\ o = analyze_product_performance_fallback(raw, ProductOf(f, k))
                            /\ Get(o, TextField(f.h), None) = Str(raw)
                  [] f.h = "contact_discovery" ->
                        f.status = "returned" =>
                            /\ SlotValue(f) = MockContactsOf(f)
                            /\ \A j \in 1..Len(SlotValue(f).items) :
                                   ~HoldsText(SlotValue(f).items[j], raw)
                  [] f.h = "opportunity_matching" ->
                        \E o \in Range(f.acc) :
                            /\ o = match_opportunities_fallback(ProductOf(f, k))
                            /\ ~HoldsText(o, raw)

\* a trend_analysis whose completion was prose has returned the fallback with the
\* prose in trends_text
C4_Witness ==
    /\ pc = "returned"
    /\ frame.h = "trend_analysis"
    /\ frame.responses = << <<"The market is growing.">> >>
    /\ Get(SlotValue(frame), "trends_text", None) = Str(<<"The market is growing.">>)
    /\ Get(SlotValue(frame), "market_outlook", None) = S("neutral")

RECURSIVE DictPrefix(_)
DictPrefix(elems) ==
    IF elems = <<>> \/ ~IsDict(Head(elems)) THEN <<>>
    ELSE <<Head(elems)>> \o DictPrefix(Tail(elems))

C6_NonJsonNeverAnError ==
    \A f \in Handled :
        \A k \in 1..Len(f.responses) :
            (f.h \in JsonHandlers /\ Finished(f) /\ ~Loads(f.responses[k]).ok) =>
                Success(route_result(f.agent, f)) = Bool(TRUE)

\* the number of completion calls _translate_text makes for a text it accepts: a
\* second one detects the language when source_language is 'auto'
CallsPerText(f) ==
    IF Get(f.request_data, "source_language", S("auto")) = S("auto") THEN 2 ELSE 1

\* the completion call of f that translates text i of a batch (0 if text i is
\* rejected before any call): the texts before it that are not empty took theirs
TranslateCall(f, i) ==
    LET texts == Get(f.request_data, "texts", None).items IN
    IF ~Truthy(texts[i]) \/ ~Supported(Get(f.request_data, "target_language", None)) THEN 0
    ELSE 1 + CallsPerText(f) * Cardinality({j \in 1..(i - 1) : Truthy(texts[j])})

\* C7 as stated: batch translation of N texts returns exactly N entries, entry i
\* for text i, whichever elements fail; an element whose translation failed (it
\* was rejected, or its completion call failed) keeps its original text as its
\* 'translated' value.
C7_BatchKeepsOriginalOnFailure ==
    \A f \in Handled :
        (f.h = "batch_translation" /\ f.status = "returned"
         /\ Success(f.result) = Bool(TRUE)) =>
            LET texts == Get(f.request_data, "texts", None).items
                entries == Get(Get(f.result, "data", None), "translations", None).items
            IN /\ Len(entries) = Len(texts)
               /\ \A i \in 1..Len(texts) :
                     /\ Get(entries[i], "index", None) = Num(i - 1)
                     /\ Get(entries[i], "original", None) = texts[i]
                     /\ (TranslateCall(f, i) = 0 \/ f.failures[TranslateCall(f, i)])
                            => Get(entries[i], "translated", None) = texts[i]

\* the part of C7 that holds whatever the completion calls do: N entries, entry i
\* for text i, and an element rejected before any call keeps its original text
BatchEntriesInOrder ==
    \A f \in Handled :
        (f.h = "batch_translation" /\ f.status = "returned"
         /\ Success(f.result) = Bool(TRUE)) =>
            LET texts == Get(f.request_data, "texts", None).items
                entries == Get(Get(f.result, "data", None), "translations", None).items
            IN /\ Len(entries) = Len(texts)
               /\ \A i \in 1..Len(texts) :
                     /\ Get(entries[i], "index", None) = Num(i - 1)
                     /\ Get(entries[i], "original", None) = texts[i]
                     /\ TranslateCall(f, i) = 0
                            => Get(entries[i], "translated", None) = texts[i]

\* the errors list of the aggregate, as a set of strings
Errors(agg) == {e.atom[1] : e \in Range(Get(agg, "errors", Arr(<<>>)).items)}

SlotKeys == <<"market_analysis", "contacts", "trends">>

\* C8: whatever the three sub-analyses ended in (a success envelope, a failure
\* envelope, an exception), the aggregate has success true and the output slot of a
\* sub-analysis is null exactly when the errors list holds the entry naming it; with
\* one sub-analysis raising and the two others succeeding the errors list has that
\* one entry and only that slot is null.
C8_AggregateSlots ==
    rpc = "returned" =>
        /\ Success(aggregate) = Bool(TRUE)
        /\ \A i \in 1..3 :
              (Get(aggregate, SlotKeys[i], Absent) = None) <=> (ErrorEntries[i] \in Errors(aggregate))
        /\ \A i \in 1..3 :
              (gather_results[i].kind = "exc"
               /\ \A j \in (1..3) \ {i} : Succeeded(gather_results[j])) =>
                  /\ Get(aggregate, "errors", None) = StrList(<<ErrorEntries[i]>>)
                  /\ \A j \in 1..3 : (Get(aggregate, SlotKeys[j], Absent) = None) <=> (j = i)

\* the contact discovery raised, the two other sub-analyses succeeded, and the
\* aggregate has one error and a null contacts slot
C8_Witness ==
    /\ rpc = "returned"
    /\ gather_results[2].kind = "exc"
    /\ Succeeded(gather_results[1]) /\ Succeeded(gather_results[3])
    /\ Get(aggregate, "errors", None) = StrList(<<"Contact discovery failed">>)
    /\ Get(aggregate, "contacts", Absent) = None
    /\ Get(aggregate, "market_analysis", Absent) # None
    /\ Get(aggregate, "trends", Absent) # None

\* C9 as stated: the three sub-invocations of a research request overlap in time,
\* the aggregate is returned only after all three have ended, and a failure in one
\* neither cancels nor skips the others.
C9_SubInvocationsOverlap ==
    rpc = "returned" =>
        /\ \A i \in 1..3 : Finished(tasks[i])
        /\ (\A i \in 1..3 : tasks[i].outbound > 0) => overlapped

\* the part of C9 that the scheduling does give: the aggregate is returned only
\* after all three sub-invocations have ended, whatever each ended in
JoinsOnAllThree ==
    rpc \in {"gathered", "returned"} => \A i \in 1..3 : Finished(tasks[i])

\* C10: routing a request to a name that is not registered returns an envelope
\* with success false whose available_agents holds exactly the registered names,
\* the requested name not among them, and no handler is invoked: nothing is logged
\* and no completion call is made.
C10_NotFoundListsRegistered ==
    (pc = "returned" /\ agent_name \notin agents) =>
        LET listed == {a.atom[1] : a \in Range(Get(response, "available_agents", Arr(<<>>)).items)}
        IN /\ Success(response) = Bool(FALSE)
           /\ Has(response, "available_agents")
           /\ listed = agents
           /\ agent_name \notin listed
           /\ ~frame.dispatched
           /\ frame.h = ""
           /\ frame.outbound = 0

\* a request for an agent that was never registered has been answered with the
\* names of the three registered agents
C10_Witness ==
    /\ pc = "returned"
    /\ agent_name = "ContentModerationAgent"
    /\ agents = AgentNames
    /\ Len(Get(response, "available_agents", Arr(<<>>)).items) = 3
    /\ Success(response) = Bool(FALSE)

\* C11: route_request never propagates an exception of a registered agent: when
\* process_request raises, route_request returns an envelope with success false
\* that names the agent (in 'agent' and in the error text) and whose error text
\* ends with the text of the exception.
C11_RaisedBecomesEnvelope ==
    /\ (pc = "returned" /\ frame.status = "raised") =>
          /\ agent_name \in agents
          /\ Success(response) = Bool(FALSE)
          /\ Get(response, "agent", None) = S(agent_name)
          /\ agent_name \in Range(ErrorText(response))
          /\ frame.exc # <<>>
          /\ SubSeq(ErrorText(response),
                    Len(ErrorText(response)) - Len(frame.exc) + 1,
                    Len(ErrorText(response))) = frame.exc
          /\ ~Has(response, "data")
    /\ \A i \in 1..3 :
          (rpc \in {"gathered", "returned"} /\ tasks[i].status = "raised") =>
              /\ Success(gather_results[i]) = Bool(FALSE)
              /\ Get(gather_results[i], "agent", None) = S(MarketResearchAgent)
              /\ Carries(ErrorText(gather_results[i]), tasks[i].exc)

\* a product_insights request whose products hold a string made the handler
\* raise AttributeError, and route_request answered with the error envelope
C11_Witness ==
    /\ pc = "returned"
    /\ frame.status = "raised"
    /\ frame.h = "product_insights"
    /\ agent_name = BusinessIntelligenceAgent
    /\ Success(response) = Bool(FALSE)
    /\ Carries(ErrorText(response), AttributeError)

\* an envelope with success true, a data field and no error field, or with success
\* false, an error field and no data field
WellFormed(envelope) ==
    /\ IsDict(envelope)
    /\ Success(envelope) \in {Bool(TRUE), Bool(FALSE)}
    /\ Success(envelope) = Bool(TRUE) => (Has(envelope, "data") /\ ~Has(envelope, "error"))
    /\ Success(envelope) = Bool(FALSE) => (Has(envelope, "error") /\ ~Has(envelope, "data"))

\* C12: every envelope a capability handler returns and every envelope
\* route_request returns has success true, a data field and no error field, or
\* success false, an error field and no data field.
C12_EnvelopeShape ==
    /\ \A f \in Frames : f.status = "returned" => WellFormed(f.result)
    /\ pc = "returned" => WellFormed(response)
    /\ rpc \in {"gathered", "returned"} => \A i \in 1..3 : WellFormed(gather_results[i])

\* a market_analysis has returned a success envelope with data and without error
C12_Witness ==
    /\ pc = "returned"
    /\ frame.h = "market_analysis"
    /\ Success(response) = Bool(TRUE)
    /\ Has(response, "data")
    /\ ~Has(response, "error")
    /\ IsDict(Get(response, "data", None))

\* the data of a success envelope
Data(envelope) == Get(envelope, "data", None)

\* the text the last completion call of f handed to the handler
LastReply(f) == f.responses[Len(f.responses)]

\* C13: a language_detection request with non-empty text is answered with a success
\* envelope whose detected_language is the trimmed, lower-cased completion text when
\* that is a supported code, whose language_name is the name of that code and whose
\* confidence is 0.9 (completion "fr": "fr", "French"); detected_language is always
\* a supported code.
C13_DetectedIsSupportedCode ==
    \A f \in Handled :
        (f.h = "language_detection" /\ Missing(f) = "" /\ f.status # "calling") =>
            LET code == LowerStr(Strip(LastReply(f)))
                detected == Get(Data(f.result), "detected_language", None)
            IN /\ f.status = "returned"
               /\ f.outbound = 1
               /\ Success(f.result) = Bool(TRUE)
               /\ Supported(detected)
               /\ Supported(Str(code)) => detected = Str(code)
               /\ Get(Data(f.result), "language_name", None)
                      = S(LanguageName(detected.atom[1]))
               /\ Get(Data(f.result), "language_name", None) # S("Unknown")
               /\ Get(Data(f.result), "confidence", None) = Float("0.9")
               /\ Get(Data(f.result), "text", None) = Item(f.request_data, "text")
               /\ LastReply(f) = <<"fr">> =>
                      /\ detected = S("fr")
                      /\ Get(Data(f.result), "language_name", None) = S("French")

\* a detection whose completion text was " FR\n" has returned "fr", "French"
C13_Witness ==
    /\ pc = "returned"
    /\ frame.h = "language_detection"
    /\ frame.responses = << <<" ", "FR", "\n">> >>
    /\ Get(Data(response), "detected_language", None) = S("fr")
    /\ Get(Data(response), "language_name", None) = S("French")
    /\ Get(Data(response), "confidence", None) = Float("0.9")

\* the handlers that loop over the products of the request
ProductLoopHandlers == {"opportunity_matching", "product_insights"}

\* the completion calls the request of f asks for when every step of its handler
\* is taken: one per product, one or two per non-empty text, else one
CallBudget(f) ==
    CASE f.h \in ProductLoopHandlers ->
             ProductCount(Get(f.request_data, "products", None))
      [] f.h = "text_translation" -> CallsPerText(f)
      [] f.h = "batch_translation" ->
             LET texts == Get(f.request_data, "texts", None) IN
             IF ~IsList(texts) \/ ~Supported(Get(f.request_data, "target_language", None))
             THEN 0
             ELSE CallsPerText(f) * Cardinality({j \in 1..Len(texts.items) : Truthy(texts.items[j])})
      [] OTHER -> 1

C16_RegistryNeverChanges == [][agents' = agents]_vars

\* C16: the registry is populated at most once and is read-only once it is
\* populated: route_request, the request methods of AgentManager and stop_agents
\* never change it, and start_agents changes it only when the initialization inside
\* the constructor had failed, by registering the three agents it then constructs.
C16_RegistryPopulatedOnce ==
    [][/\ agents # {} => agents' = agents
       /\ agents' # agents =>
              /\ ~agents_initialized /\ agents_initialized'
              /\ agents' = AgentNames
              /\ running'
              /\ <<request_count, routeVars, researchVars>>'
                     = <<request_count, routeVars, researchVars>>
       /\ agents \in {{}, AgentNames}]_vars

\* the constructor registered nothing, a later start_agents registered the three
\* agents, and a request has since been routed to one of them
C16_Witness ==
    /\ ~constructed
    /\ agents = AgentNames
    /\ running
    /\ pc = "returned"
    /\ frame.dispatched

\* C15: concurrent invocations share no mutable state, so no interleaving of two
\* invocations loses an update: the request counter of every agent equals the
\* number of log_request calls that have ended on that agent.
C15_NoLostUpdate ==
    \A a \in AgentNames : request_count[a] = logged[a]

\* the steps of the last handler that emit `event`
Emissions(event) == {k \in 1..Len(events) : events[k].kind = "emit" /\ events[k].event = event}

\* the steps of the last handler of the given kind, for the message m
Steps(kind, m) ==
    {k \in 1..Len(events) : events[k].kind = kind /\ events[k].message.id = m.id}

\* whether the preferred languages of the sender and the receiver of m differ
LanguagesDiffer(m) ==
    m.receiver_id \in Users /\ Language(m.sender_id) # Language(m.receiver_id)

\* the message of emission k is a row of Message, committed before step k
PersistedBefore(k) ==
    /\ \E j \in Steps("commit", events[k].message) : j < k /\ events[j].message = events[k].message
    /\ \E n \in 1..Len(messages) : messages[n] = events[k].message

\* emission k goes to the room of the conversation of its message
ToConversationRoom(k) ==
    /\ events[k].room = RoomName(events[k].message.conversation_id)
    /\ events[k].to = NoSocket
    /\ events[k].skip = NoSocket

\* the acknowledgement follows emission k and goes to the socket of the sender alone
AcknowledgedAfter(k) ==
    /\ Cardinality(Emissions("message_sent")) = 1
    /\ \A a \in Emissions("message_sent") :
          /\ a > k
          /\ events[a].room = <<>>
          /\ events[a].to # NoSocket
          /\ events[a].to = connected_users[events[k].message.sender_id]
          /\ events[a].message = events[k].message

\* C17 as stated: new_message is emitted to the conversation room only after the
\* message is persisted and, when the languages differ, after the translation has
\* run and the translated text is attached under the receiver's language; the
\* acknowledgement follows, to the sending socket only.
C17_EmittedAfterTranslationAttached ==
    \A k \in Emissions("new_message") :
        LET m == events[k].message IN
        /\ PersistedBefore(k)
        /\ ToConversationRoom(k)
        /\ AcknowledgedAfter(k)
        /\ LanguagesDiffer(m) =>
               /\ \E j \in Steps("translate", m) : j < k /\ events[j].event = TranslationAgent
               /\ m.translated_content.lang = Language(m.receiver_id)

\* C17: new_message is emitted to the conversation room only after the message is
\* persisted and, when the languages differ, after the translation has been asked
\* for; the text the translation gave is attached under the receiver's language when
\* the TranslationAgent is registered, and nothing is attached when it is not or
\* when the languages are equal; the acknowledgement follows the room emission and
\* goes to the sending socket only.
C17_EmittedAfterPersistAndTranslation ==
    \A k \in Emissions("new_message") :
        LET m == events[k].message IN
        /\ PersistedBefore(k)
        /\ ToConversationRoom(k)
        /\ AcknowledgedAfter(k)
        /\ LanguagesDiffer(m) =>
               /\ \E j \in Steps("translate", m) :
                     /\ j < k
                     /\ \A c \in Steps("commit", m) : j < c
                     /\ events[j].event = TranslationAgent <=> TranslationAgent \in agents
               /\ IF TranslationAgent \in agents
                  THEN m.translated_content.lang = Language(m.receiver_id)
                  ELSE m.translated_content = NoTranslation
        /\ ~LanguagesDiffer(m) =>
               /\ Steps("translate", m) = {}
               /\ m.translated_content = NoTranslation

\* a message from an English to a French user has been translated, persisted with
\* "bonjour" under 'fr', emitted to its room and acknowledged, in this order
C17_Witness ==
    /\ Len(events) = 4
    /\ events[1].kind = "translate" /\ events[1].event = TranslationAgent
    /\ events[2].kind = "commit"
    /\ events[3].event = "new_message"
    /\ events[4].event = "message_sent"
    /\ events[3].message.translated_content = [lang |-> "fr", text |-> <<"bonjour">>]
    /\ events[3].message = messages[Len(messages)]

\* C18: every persisted message, whether created by the HTTP send route or by the
\* send_message event, has as conversation_id the id generate_conversation_id gives
\* for its sender and receiver, which is the same for both orders of the two.
C18_ConversationOfItsUsers ==
    /\ \A a \in Users, b \in Users :
          generate_conversation_id(a, b) = generate_conversation_id(b, a)
    /\ \A n \in 1..Len(messages) :
          messages[n].conversation_id
              = generate_conversation_id(messages[n].sender_id, messages[n].receiver_id)

\* C19: changes of the connection map and of the room lists are serialized against
\* the connect and disconnect events of other clients: no handler that iterates the
\* map sees it change under the iteration, so the disconnect of a registered socket
\* always ends with the entries of its user removed; no closed socket stays in the map.
C19_DisconnectRemovesEntries ==
    \A sid \in Sids :
        sockets[sid].state = "closed" => \A u \in Users : connected_users[u] # sid

\* the emissions of user_typing of the step just taken
TypingEmissions == {k \in 1..Len(events) : events[k].kind = "emit" /\ events[k].event = "user_typing"}

\* C20: a typing event from the socket of a connected user that names a
\* conversation is broadcast as one user_typing to the room of that conversation
\* with the sending socket skipped, and to no socket directly; every step that
\* emits user_typing leaves the persisted messages, the connection map and the room
\* lists of the users as they were.
C20_TypingBroadcastOnly ==
    [][/\ \A sid \in Sids, conversation_id \in ClientConversationIds :
             (/\ sockets[sid].state = "open"
              /\ get_current_user_id(sid) # NoUser
              /\ handle_typing(sid, conversation_id))
                 => events' = <<EmitRoom("user_typing", RoomName(conversation_id), sid,
                                         NoMessage)>>
       /\ TypingEmissions' # {}
             => /\ UNCHANGED <<messages, connected_users, user_rooms>>
                /\ Len(events') = 1
                /\ \A k \in TypingEmissions' :
                      /\ events'[k].skip \in Sids
                      /\ get_current_user_id(events'[k].skip) # NoUser
                      /\ events'[k].to = NoSocket
                      /\ events'[k].room \in {RoomName(c) : c \in ClientConversationIds}
                      /\ events'[k].message = NoMessage]_vars

\* a connected user's socket has sent a typing event for the conversation a message
\* was persisted in
C20_Witness ==
    /\ Len(messages) = 1
    /\ Len(events) = 1
    /\ TypingEmissions = {1}
    /\ events[1].room = RoomName(messages[1].conversation_id)
    /\ events[1].skip \in Sids
    /\ connected_users[messages[1].receiver_id] = events[1].skip

\* C21: the completion client never raises to the handler that called it: what a
\* failed client call hands back is the text "Error: Unable to process request - "
\* followed by the description of the failure, what a successful call hands back is
\* the completion text, there is one text for each call made, and no exception that
\* leaves a handler carries the failure of the client.
C21_ClientNeverRaises ==
    \A f \in Frames :
        /\ Len(f.failures) = Len(f.responses)
        /\ Len(f.responses) = (IF f.status = "calling" THEN f.outbound - 1 ELSE f.outbound)
        /\ \A k \in 1..Len(f.responses) :
              IF f.failures[k]
              THEN \E e \in ClientErrors : f.responses[k] = <<ErrorPrefix>> \o e
              ELSE f.responses[k] \in CompletionTexts \cup PlainTexts
        /\ f.status = "raised" =>
              \A e \in ClientErrors : Range(e) \cap Range(f.exc) = {}

\* a handler has run on to its envelope with the error text of a failed call
C21_Witness ==
    /\ pc = "returned"
    /\ frame.h = "market_analysis"
    /\ frame.failures = <<TRUE>>
    /\ frame.responses = << <<ErrorPrefix, "Connection error.">> >>
    /\ frame.status = "returned"

\* the routes that read companies or products
ReadRoutes ==
    {"get_companies", "get_company", "get_my_companies", "get_products", "get_product",
     "get_my_products", "search_products"}

\* C22: deleting a company or a product is a soft delete: no step removes a row,
\* and a row whose is_active is false stays so whatever operation comes next and is
\* in the answer of no read route (get by id, listing, search, my-companies,
\* my-products); a delete that answers 200 leaves no more active rows than before.
C22_SoftDeleteIsFinal ==
    [][/\ \A c \in CompanyIds :
             /\ companies[c].exists => companies'[c].exists
             /\ (companies[c].exists /\ ~companies[c].is_active) =>
                   /\ ~companies'[c].is_active
                   /\ reply'.route \in ReadRoutes => c \notin reply'.companies
       /\ \A p \in ProductIds :
             /\ products[p].exists => products'[p].exists
             /\ (products[p].exists /\ ~products[p].is_active) =>
                   /\ ~products'[p].is_active
                   /\ reply'.route \in ReadRoutes => p \notin reply'.products
       /\ (reply'.route = "delete_company" /\ reply'.status = 200) =>
             \E c \in CompanyIds : companies[c].exists /\ ~companies'[c].is_active
       /\ (reply'.route = "delete_product" /\ reply'.status = 200) =>
             \E p \in ProductIds : products[p].exists /\ ~products'[p].is_active]_vars

\* a deleted product of an active company has been asked for by id
C22_Witness ==
    /\ products[1].exists /\ ~products[1].is_active
    /\ companies[1].exists /\ companies[1].is_active
    /\ reply = [route |-> "get_product", status |-> 404, companies |-> {}, products |-> {}]

\* the invocations on a request whose type is none of the request types of the
\* agent it was routed to, the requests without a type among them
UnknownType ==
    {f \in Frames :
        /\ f.dispatched /\ IsDict(f.request_data)
        /\ LET request_type == Get(f.request_data, "type", None) IN
           ~(IsStr(request_type) /\ Len(request_type.atom) = 1
             /\ request_type.atom[1] \in RequestTypes(f.agent))}

\* C23: a request routed to a registered agent whose type is none of the request
\* types of that agent, or that has no type, is answered with the error envelope
\* of the agent: success false and an error text that names the type; no handler
\* runs for it and no completion call is made.
C23_UnknownTypeRejected ==
    /\ \A f \in UnknownType :
          /\ f.h = ""
          /\ f.status = "returned"
          /\ f.outbound = 0 /\ f.responses = <<>> /\ f.printed = <<>>
          /\ Success(f.result) = Bool(FALSE)
          /\ Get(f.result, "agent", None) = S(f.agent)
          /\ ErrorText(f.result)
                = <<"Unknown request type: ">> \o Fmt(Get(f.request_data, "type", None))
    /\ (pc = "returned" /\ frame \in UnknownType) => response = frame.result

\* the market research agent has answered a request for a translation
C23_Witness ==
    /\ pc = "returned"
    /\ agent_name = MarketResearchAgent
    /\ Get(frame.request_data, "type", None) = S("text_translation")
    /\ ErrorText(response) = <<"Unknown request type: ", "text_translation">>

\* what a returned chat translation says when the two languages are equal: no
\* completion call, needs_translation false, the message as it was
SameLanguageUntranslated ==
    /\ translation.called.outbound = 0
    /\ ~translation.result.needs_translation
    /\ translation.result.translated = translation.message

\* what it says when the handler came back with a failure envelope: the message as
\* it was, and the error of the envelope next to it
FailureKeepsOriginal ==
    (translation.called.status = "returned" /\ ~Truthy(Item(translation.called.result, "success")))
        => /\ translation.result.translated = translation.message
           /\ translation.result.error # <<>>
           /\ translation.result.error = ErrorText(translation.called.result)

SessionMethods == {"process_audio_input", "end_voice_session"}

\* C25: a voice session is usable from a successful start_voice_session to the
\* first end_voice_session for its id: a start puts the id into the table and an
\* end takes it out; process_audio_input or end_voice_session entered with an id
\* that is not in the table (never started, or ended) returns success false with
\* 'Session not found', makes no outbound call and leaves the table as it was; with
\* an id that is in the table it does not answer 'Session not found'.
C25_UnknownSessionRefused ==
    [][/\ (voice_result'.method \in SessionMethods
              /\ (voice_call' = voice_call \/ voice_call.at = "idle")) =>
             (voice_result'.found <=> active_sessions[voice_result'.session_id] # NoUser)
       /\ (voice_result'.method \in SessionMethods /\ ~voice_result'.found) =>
             /\ ~voice_result'.success
             /\ voice_result'.error = "Session not found"
             /\ voice_result'.outbound = 0
             /\ voice_result'.touched = NoUser
             /\ UNCHANGED <<active_sessions, voice_call>>
       /\ (voice_result'.method \in SessionMethods /\ voice_result'.found) =>
             voice_result'.error # "Session not found"
       /\ (voice_result'.method = "start_voice_session" /\ voice_result'.success) =>
             active_sessions'[voice_result'.session_id] = voice_result'.caller
       /\ (voice_result'.method = "end_voice_session" /\ voice_result'.success) =>
             /\ active_sessions[voice_result'.session_id] # NoUser
             /\ active_sessions'[voice_result'.session_id] = NoUser]_vars

\* a session was started and an audio of it is still being processed; it has been
\* ended, and a second end for its id has been refused
C25_Witness ==
    /\ voice_call.at = "audio_processing"
    /\ voice_result.method = "end_voice_session"
    /\ voice_result.session_id = voice_call.session_id
    /\ ~voice_result.found
    /\ voice_result.error = "Session not found"
    /\ active_sessions[voice_call.session_id] = NoUser

\* C30: a voice session is fed audio, ended or replaced only by the user who
\* started it: no voice_audio_data, end_voice_session or start_voice_session event
\* from a socket of another user, or from a socket that resolves to no user, reads,
\* removes or overwrites the session.
C30_OnlyOwnerTouchesSession ==
    voice_result.touched \in {NoUser, voice_result.caller}

(***************************************************************************)
(* The market research route.  POST /research adds a row of MarketResearch  *)
(* with status 'processing', runs process_market_research_request and       *)
(* writes what the aggregate says into the row.                             *)
(***************************************************************************)
\* what the database does with the commits of the route's second half: every commit
\* succeeds, the first one that runs raises, or every one raises
CommitOutcomes == {"ok", "first", "all"}

\* request_market_research up to run_async(...): the body is checked, the product
\* (when one is named) is looked up among the user's active products, and the row
\* is added with status 'processing'
request_market_research_begin(current_user_id, product_id, complete) ==
    IF ~complete
    THEN [NoResearch EXCEPT !.answer = 400]
    ELSE IF product_id # 0 /\ ~(OwnProduct(product_id, current_user_id)
                                /\ products[product_id].is_active)
    THEN [NoResearch EXCEPT !.answer = 404]
    ELSE [NoResearch EXCEPT !.status = "processing"]

\* the route without the inner except clause: what raises in the try block leaves
\* the row as it is, and the route answers 201
request_market_research_resume_unguarded(ai_result, setter_raises, commits) ==
    LET success == Truthy(Get(ai_result, "success", None))
        raises == \/ success /\ ~IsDict(Get(ai_result, "contacts", Obj(<<>>, <<>>)))
                  \/ success /\ setter_raises
                  \/ commits # "ok"
    IN [status |-> IF raises THEN "processing"
                   ELSE IF success THEN "completed" ELSE "failed",
        answer |-> 201, ai_result |-> ai_result, raised |-> raises]

\* request_market_research from the return of run_async(...): the try block sets the
\* status and the results and commits; the inner except sets 'failed' and commits
\* again; a commit that raises there reaches the outer except, which rolls back and
\* answers 500
request_market_research_resume(ai_result, setter_raises, commits) ==
    LET success == Truthy(Get(ai_result, "success", None))
        \* ai_result.get('contacts', {}).get('contacts', []) on what is not a dict
        no_get == success /\ ~IsDict(Get(ai_result, "contacts", Obj(<<>>, <<>>)))
        before_commit == no_get \/ (success /\ setter_raises)
        try_raises == before_commit \/ commits # "ok"
        except_commit_raises == IF before_commit THEN commits # "ok" ELSE commits = "all"
    IN IF ~try_raises
       THEN [status |-> IF success THEN "completed" ELSE "failed",
             answer |-> 201, ai_result |-> ai_result, raised |-> FALSE]
       ELSE IF ~except_commit_raises
       THEN [status |-> "failed", answer |-> 201, ai_result |-> ai_result, raised |-> TRUE]
       ELSE [status |-> "processing", answer |-> 500, ai_result |-> ai_result,
             raised |-> TRUE]

\* everything but the research request and the row
marketFrame == <<registryVars, request_count, logged, routeVars, constructed, threads,
                 socketVars, catalogVars, translation, voiceVars>>

\* POST /research arrives
RequestMarketResearch ==
    /\ pc = "idle" /\ rpc = "idle"
    /\ research = NoResearch
    /\ \E current_user_id \in Users, product_id \in {0} \cup ProductIds, complete \in BOOLEAN :
          research' = request_market_research_begin(current_user_id, product_id, complete)
    /\ UNCHANGED <<marketFrame, researchVars>>

\* the route calls process_market_research_request
MarketResearchStart ==
    /\ research.status = "processing" /\ research.answer = 0
    /\ ResearchStart

\* run_async returns the aggregate and the route answers
MarketResearchAnswers ==
    /\ rpc = "returned"
    /\ research.status = "processing" /\ research.answer = 0
    /\ \E setter_raises \in BOOLEAN, commits \in CommitOutcomes :
          research' = request_market_research_resume(aggregate, setter_raises, commits)
    /\ rpc' = "idle"
    /\ research_data' = None
    /\ tasks' = NoTasks
    /\ gather_results' = NoResults
    /\ aggregate' = None
    /\ overlapped' = FALSE
    /\ UNCHANGED marketFrame

\* the client has the answer; the next request is about another row
MarketResearchDone ==
    /\ research.answer # 0
    /\ research' = NoResearch
    /\ UNCHANGED <<marketFrame, researchVars>>

NextMarket ==
    \/ RequestMarketResearch
    \/ MarketResearchStart
    \/ \E i \in 1..3 : TaskStart(i)
    \/ \E i \in 1..3 : TaskCompletes(i)
    \/ GatherReturns
    \/ CompileResults
    \/ MarketResearchAnswers
    \/ MarketResearchDone

SpecMarket == Init /\ [][NextMarket]_vars

\* C26: when POST /research answers 201 the stored row is 'completed' or 'failed',
\* never 'processing': 'completed' when the aggregate says success and its results
\* were stored without a raise, 'failed' when the aggregate says no success or
\* storing or processing raised.
C26_AnsweredResearchIsSettled ==
    research.answer = 201 =>
        LET success == Truthy(Get(research.ai_result, "success", None)) IN
        /\ research.status \in {"completed", "failed"}
        /\ research.status = "completed" <=> (success /\ ~research.raised)
        /\ research.status = "completed" =>
              IsDict(Get(research.ai_result, "contacts", None))

\* the route answered 201 for an aggregate whose contacts are missing: storing raised
C26_Witness ==
    /\ research.answer = 201
    /\ research.status = "failed"
    /\ research.raised
    /\ Truthy(Get(research.ai_result, "success", None))

(***************************************************************************)
(* The sockets and their rooms: clients connect, send messages, join and   *)
(* leave conversation rooms and disconnect, in any order.                  *)
(***************************************************************************)
NextRooms ==
    \/ Connect
    \/ DisconnectBegins
    \/ DisconnectEnds
    \/ JoinConversation
    \/ LeaveConversation
    \/ SendMessage

SpecRooms == Init /\ [][NextRooms]_vars

\* the two users a conversation room is named after: conversation_conv_<a>_<b>
Participants(room_name) == {room_name[3], room_name[4]}

\* C27: a user who is not one of the two participants identified by a conversation
\* id never becomes joined to that conversation's room, whatever WebSocket events
\* (connect, send_message, join_conversation, leave_conversation) are sent.
C27_OnlyParticipantsJoined ==
    \A sid \in Sids : \A room_name \in joined[sid] :
        sockets[sid].user \in Participants(room_name)

\* C28: the room list recorded for a user holds exactly the conversation rooms that
\* the socket registered for that user is joined to.
C28_RoomListIsTheSocketsRooms ==
    \A u \in Users :
        (connected_users[u] # NoSocket /\ user_rooms[u].has) =>
            user_rooms[u].rooms = joined[connected_users[u]]

\* C29: every socket that completed connect and has not disconnected is resolved
\* to its user, also when the same user connected from another socket in between
\* or another socket of the user disconnected.
C29_OpenSocketResolvesToItsUser ==
    \A sid \in Sids :
        sockets[sid].state = "open" => get_current_user_id(sid) = sockets[sid].user

=============================================================================
